---- MODULE Spec2Model ----
(***************************************************************************)
(* LOGify event pipeline: the log store and its sync uploader              *)
(* (cli/logify/db.py, cli/logify/sync.py, the background worker of         *)
(* cli/logify/main.py), the threat detector (cli/logify/detector.py), the  *)
(* rotation-aware file tracker (cli/logify/tail.py), the producers that    *)
(* write to the store (tail.py, scan.py) and an invocation of the tailer   *)
(* with its resource guard and priority scheduler (tail.py watch_many,     *)
(* cli/logify/scheduler.py).                                               *)
(*                                                                         *)
(* Each part has its own next-state relation and specification; the        *)
(* variables of the other parts stay at their initial values.              *)
(***************************************************************************)
EXTENDS Integers, Sequences, FiniteSets, TLC

(***************************************************************************)
(* Bounds of the model.                                                    *)
(***************************************************************************)
\* Records the store may hold.
MaxRecords == 3
\* Readings of the wall clock seen by the store and the uploader: 1..MaxClock.
MaxClock == 2
\* sync.py:63 sets batch_size = 2000 and sync.py:120 sets chunk_size = 900.
\* The model keeps the code's arithmetic and scales the two sizes, the chunk
\* below the batch as in the code, so that a store of MaxRecords records spans
\* several batches and several chunks.
batch_size == 2
chunk_size == 1
\* Calls of set_config / update_config each updater of the config makes.
MaxUpdates == 2
\* Accepted POSTs of one record that are counted.
MaxAccepts == 2
\* Records in the store two uploaders share.
MaxShared == 2
\* Calls each thread of the tailer makes to the detector.
MaxThreadCalls == 2
\* Entries the shells append to a history file.
MaxCommands == 2
\* Lines whose level the tailer infers.
MaxLevelLines == 1

Min(a, b) == IF a <= b THEN a ELSE b

SeqToSet(s) == {s[k] : k \in 1..Len(s)}

\* Python's s[a:a + n] for a 0-based start a: the elements a+1 .. a+n of s, cut
\* at the end of s.
Slice(s, a, n) == SubSeq(s, a + 1, Min(a + n, Len(s)))

(***************************************************************************)
(* State of the store, the config and the uploader.                        *)
(***************************************************************************)
\* ---- the store, the config and the uploader
VARIABLES
    netCols,        \* the logs table has the columns source_ip, dest_ip, event_id
    cfgAuth,        \* config holds a connection_key and a server_id
    last_sync,      \* config['last_sync']: 0 when never written, else the clock reading
    clock,          \* time.time() / datetime.now(): the wall clock
    logs,           \* the logs table: logs[id] = [timestamp, synced], id = AUTOINCREMENT rowid
    aggregator,     \* "up": the aggregator accepts POSTs; "down": it rejects or is unreachable
    pc,             \* where the background worker is
    unsynced_logs,  \* sync_logs: the ids fetched by the SELECT, in the order returned
    i,              \* sync_logs: start of the next batch in unsynced_logs
    synced_ids,     \* sync_logs: ids of the batches that were accepted
    \* history of the current / last cycle
    outcome,        \* how the cycle ended
    startLogs,      \* the logs table when the cycle began
    posted,         \* the batches POSTed by the cycle, in order, with the status each got
    wrote,          \* the cycle wrote last_sync
    allOk,          \* the aggregator answered success during the whole cycle
    allBad,         \* the aggregator answered non-success during the whole cycle
    prevBad,        \* ids unsynced when the previous cycle began, if the
                    \* aggregator was answering non-success during all of it
    activity        \* the entries the cycle wrote to ~/.logify/activity.log

syncVars == <<netCols, cfgAuth, last_sync, clock, logs, aggregator, pc,
              unsynced_logs, i, synced_ids, outcome, startLogs, posted, wrote,
              allOk, allBad, prevBad, activity>>

\* ---- the threat detector (detector.py ThreatDetector)
VARIABLES
    now,            \* time.time() as the detector reads it
    brute,          \* _brute: per source IP, the SlidingWindow of auth failures
    scan,           \* _scan: per source IP, the SetSlidingWindow of (time, port)
    flood,          \* _flood: per source, the SlidingWindow of lines
    errors,         \* _errors: the SlidingWindow of ERROR/CRITICAL lines
    alerted,        \* _alerted_brute, _alerted_scan, _alerted_flood: key -> last alert
    event,          \* what the last call of analyze returned
    emitted         \* per alert key, the clock readings of its last two emissions

detVars == <<now, brute, scan, flood, errors, alerted, event, emitted>>

\* ---- one tracked path and its tracker (tail.py SmartLogHandler)
VARIABLES
    ino,            \* inode of the file at the tracked path, Absent when there is none
    made,           \* inodes created at the path so far
    content,        \* bytes of the file at the tracked path
    events,         \* watchdog's queue of filesystem events for the path
    tracker,        \* tracked_files[path]: inode, offset, the handle's position
    delivered,      \* per inode, the lines _process_lines handled, in order
    wline,          \* the writer: number of the line it is writing
    wpos,           \* the writer: bytes of that line already written
    startOffset,    \* size of the file when tracking began
    truncated,      \* the file at the path has been truncated
    pieces,         \* a line of the file at the path was written in pieces
    truncatedSince, \* the file was truncated since the last run of on_modified
    wake            \* what the last run of on_modified saw and read

tailVars == <<ino, made, content, events, tracker, delivered, wline, wpos,
              startOffset, truncated, pieces, truncatedSince, wake>>

\* ---- the producers and the schema of the store (db.py init_db, insert_log)
VARIABLES
    columns,        \* the columns of the logs table, {} when there is no table
    opened,         \* init_db has run on the store
    rows,           \* the rows of the logs table, in the order inserted
    handled,        \* the lines the producers went through, in order
    lastCall        \* the last call of insert_log and how it ended, <<>> before it

prodVars == <<columns, opened, rows, handled, lastCall>>

\* ---- a burst of lines fed to a fresh detector
VARIABLES
    lastLine,       \* the last call of analyze: its line and clock reading, <<>> before it
    fed,            \* lines fed so far
    fails,          \* clock readings of the auth-failure lines of the source IP
    ports           \* clock reading and port of the port lines of the source IP

burstVars == <<lastLine, fed, fails, ports>>

\* ---- one invocation of the tailer (tail.py watch_many)
VARIABLES
    wpc,            \* where watch_many is
    limits,         \* euid, RLIMIT_NOFILE and the inotify sysctls of the host
    filepaths,      \* valid: the existing paths watch_many was given
    levels,         \* priority_levels: tier -> list of paths, <<>> before Step 2
    tracked,        \* handler.tracked_files: the paths with an open handle
    observing,      \* observer.start() has run
    written,        \* per path, the lines in the file
    offset,         \* per path, the lines the handle has passed
    handed,         \* per path, the lines handed to _process_lines
    pending,        \* paths with a filesystem event queued for the handler
    beat            \* parity of the iterations of the main loop

watchVars == <<wpc, limits, filepaths, levels, tracked, observing, written,
               offset, handed, pending, beat>>

\* ---- the permissions of the watched files as the handler met them
VARIABLES
    access,           \* per path, "readable" or "denied": what open(path, 'r') meets
    failed_perm_paths,\* handler.failed_perm_paths: the paths whose open was denied
    grantedAt         \* per path, the lines in the file when it last became readable

permVars == <<access, failed_perm_paths, grantedAt>>

\* ---- the config file and the processes that use it (config.py)
VARIABLES
    CONFIG_FILE,    \* ~/.logify/config.json: NoFile, NotJson or the dict it holds
    upc,            \* per updater, where its set_config / update_config is
    config,         \* per updater, the local dict of set_config / update_config
    updates,        \* per updater, the calls that returned
    loaded,         \* what the last get_config of a reader returned
    committed       \* the dicts a completed json.dump wrote, and the first one

configVars == <<CONFIG_FILE, upc, config, updates, loaded, committed>>

\* ---- the levels the tailer gives to lines (tail.py _process_lines)
VARIABLES
    levelled        \* the lines _process_lines went through, each with its lvl

levelVars == <<levelled>>

\* ---- the loop that runs the sync cycles (main.py online, online_background_worker)
VARIABLES
    task            \* the command whose loop calls sync_logs

uploaderVars == <<task>>

\* ---- the re-executions of the tailer under sudo (tail.py watch_many)
VARIABLES
    reexecs         \* per os.execvp("sudo", ...) that ran, the tracked_files open then

escalationVars == <<reexecs>>

\* ---- one shell history file and its watcher (tail.py ShellHistoryWatcher)
VARIABLES
    history,        \* the bytes of the history file
    history_offset, \* self._offsets[path], Unseen before the path's first sight
    commands,       \* the commands passed to analyze_shell_command and insert_log
    hline,          \* the entry the shell is writing
    hpos,           \* the bytes of it already in the file
    firstSize,      \* the file's size at first sight
    cleared,        \* the file was cut since first sight
    poll            \* what the last poll met and did

historyVars == <<history, history_offset, commands, hline, hpos, firstSize,
                 cleared, poll>>

\* ---- the two threads that share the detector (tail.py watch_many)
VARIABLES
    tpc,            \* per thread, "idle" or inside its call of the detector
    arg,            \* per thread, the line or command of its call
    calls,          \* per thread, the calls that returned
    mutators,       \* the threads whose calls changed the detector's state
    shell_threat    \* what the last analyze_shell_command returned

threadsVars == <<tpc, arg, calls, mutators, shell_threat>>

\* ---- two uploaders on one store (main.py auto next to main.py online)
VARIABLES
    shared,         \* the logs table both uploaders read and mark
    cycle,          \* per uploader, its sync_logs call: pc, unsynced_logs, i, synced_ids
    received        \* per record id, the POSTs of it the aggregator accepted

pairVars == <<shared, cycle, received>>

laterVars == <<permVars, configVars, levelVars, uploaderVars, escalationVars, historyVars, threadsVars, pairVars>>

vars == <<syncVars, detVars, tailVars, prodVars, burstVars, watchVars, laterVars>>
otherThanSync == <<detVars, tailVars, prodVars, burstVars, watchVars, laterVars>>
otherThanDetector == <<syncVars, tailVars, prodVars, burstVars, watchVars, laterVars>>
otherThanTail == <<syncVars, detVars, prodVars, burstVars, watchVars, laterVars>>
otherThanProducers == <<syncVars, detVars, tailVars, burstVars, watchVars, laterVars>>
otherThanBurst == <<syncVars, tailVars, prodVars, watchVars, laterVars>>
otherThanWatch == <<syncVars, detVars, tailVars, prodVars, burstVars, laterVars>>
otherThanPerm == <<syncVars, detVars, tailVars, prodVars, burstVars, configVars, levelVars, uploaderVars, escalationVars, historyVars, threadsVars, pairVars>>
otherThanConfig == <<syncVars, detVars, tailVars, prodVars, burstVars, watchVars, permVars, levelVars, uploaderVars, escalationVars, historyVars, threadsVars, pairVars>>
otherThanLevel == <<syncVars, detVars, tailVars, prodVars, burstVars, watchVars, permVars, configVars, uploaderVars, escalationVars, historyVars, threadsVars, pairVars>>
otherThanUploader == <<syncVars, detVars, tailVars, prodVars, burstVars, watchVars, permVars, configVars, levelVars, escalationVars, historyVars, threadsVars, pairVars>>
otherThanEscalation == <<syncVars, detVars, tailVars, prodVars, burstVars, configVars, levelVars, uploaderVars, historyVars, threadsVars, pairVars>>
otherThanHistory == <<syncVars, detVars, tailVars, prodVars, burstVars, watchVars, permVars, configVars, levelVars, uploaderVars, escalationVars, threadsVars, pairVars>>
otherThanThreads == <<syncVars, tailVars, prodVars, watchVars, permVars, configVars, levelVars, uploaderVars, escalationVars, historyVars, pairVars>>
otherThanPair == <<syncVars, detVars, tailVars, prodVars, burstVars, watchVars, permVars, configVars, levelVars, uploaderVars, escalationVars, historyVars, threadsVars>>

\* requests.post's outcomes: a status code, or 0 for a requests.RequestException
\* (timeout, connection refused).
TransportError == 0
Answers == {200, 201, 204, 503, TransportError}
AnswersOf(mode) == IF mode = "up" THEN {200, 201, 204} ELSE {503, TransportError}

\* sync.py:105: response.status_code in [200, 201, 204]
AnyStatus == Answers \ {TransportError}
SuccessStatus == {200, 201, 204}

Unsynced(l) == {id \in 1..Len(l) : ~l[id].synced}

\* The orders in which the SELECT of sync.py:35-41 may return the unsynced
\* rows: ORDER BY timestamp ASC fixes the order of rows with different
\* timestamps only; SQLite leaves the order of rows with equal keys undefined.
IsTimestampOrder(l, s) ==
    \A a, b \in 1..Len(s) : a < b => l[s[a]].timestamp <= l[s[b]].timestamp

QueryUnsynced(l) ==
    LET U == Unsynced(l)
        n == Cardinality(U)
    IN  {s \in [1..n -> U] :
            /\ \A a, b \in 1..n : a # b => s[a] # s[b]
            /\ IsTimestampOrder(l, s)}

\* sync.py:121-122: chunk = synced_ids[i:i + chunk_size]
ChunkShort(ids, k) == Slice(ids, k, chunk_size - 1)
Chunk(ids, k) == Slice(ids, k, chunk_size)

\* sync.py:124-128: UPDATE logs SET synced = 1 WHERE id IN (chunk)
UpdateSyncedEveryRow(l, chunk) ==
    [id \in 1..Len(l) |-> [l[id] EXCEPT !.synced = TRUE]]
UpdateSynced(l, chunk) ==
    [id \in 1..Len(l) |->
        IF id \in SeqToSet(chunk) THEN [l[id] EXCEPT !.synced = TRUE] ELSE l[id]]

\* sync.py:121-129: for i in range(0, len(synced_ids), chunk_size): ... ; commit
RECURSIVE MarkSynced(_, _, _)
MarkSynced(l, ids, k) ==
    IF k >= Len(ids) THEN l
    ELSE MarkSynced(UpdateSynced(l, Chunk(ids, k)), ids, k + chunk_size)

\* sync.py:70: batch = unsynced_logs[i:i + batch_size]
BatchOver(fetched, k) == Slice(fetched, k, batch_size + 1)
Batch(fetched, k) == Slice(fetched, k, batch_size)

\* db.py:97-104: INSERT names no synced value: the column's DEFAULT 0 (db.py:36);
\* the timestamp is time.time() at the insert.
NewRecord(t) == [timestamp |-> t, synced |-> FALSE]

\* activity_log.py:62-65, 84-85: sync_event writes one INFO entry of the
\* component SYNC.
sync_event(msg, detail) ==
    [level |-> "INFO", component |-> "SYNC", msg |-> msg, detail |-> detail]

SyncStart(cols, auth) ==
    /\ netCols = cols
    /\ cfgAuth = auth
    /\ last_sync = 0
    /\ clock = 1
    /\ logs = <<>>
    /\ aggregator = "up"
    /\ pc = "sleeping"
    /\ unsynced_logs = <<>>
    /\ i = 0
    /\ synced_ids = <<>>
    /\ outcome = "none"
    /\ startLogs = <<>>
    /\ posted = <<>>
    /\ wrote = FALSE
    /\ allOk = FALSE
    /\ allBad = FALSE
    /\ prevBad = {}
    /\ activity = <<>>

\* The store outlives the program and init_db (db.py:13-70) only ever adds
\* columns: it never creates source_ip, dest_ip or event_id, and it never drops
\* them from a table another release created.  Both kinds of store are
\* initial states, and so are a registered and an unregistered config.
SyncInit == \E cols \in BOOLEAN, auth \in BOOLEAN : SyncStart(cols, auth)

(***************************************************************************)
(* The environment of the uploader: producers, the clock, the aggregator.  *)
(***************************************************************************)
\* db.py:72-108 insert_log, called by a producer (tailer, shell-history
\* watcher, one-shot ingest) running beside the uploader.
Insert ==
    /\ Len(logs) < MaxRecords
    /\ logs' = Append(logs, NewRecord(clock))
    /\ UNCHANGED <<netCols, cfgAuth, last_sync, clock, aggregator, pc,
                   unsynced_logs, i, synced_ids, outcome, startLogs, posted,
                   wrote, allOk, allBad, prevBad, activity>>
    /\ UNCHANGED otherThanSync

ClockAdvance ==
    /\ clock < MaxClock
    /\ clock' = clock + 1
    /\ UNCHANGED <<netCols, cfgAuth, last_sync, logs, aggregator, pc,
                   unsynced_logs, i, synced_ids, outcome, startLogs, posted,
                   wrote, allOk, allBad, prevBad, activity>>
    /\ UNCHANGED otherThanSync

\* The wall clock is set back (NTP step, administrator).
ClockStepBack ==
    /\ clock > 1
    /\ clock' = clock - 1
    /\ UNCHANGED <<netCols, cfgAuth, last_sync, logs, aggregator, pc,
                   unsynced_logs, i, synced_ids, outcome, startLogs, posted,
                   wrote, allOk, allBad, prevBad, activity>>
    /\ UNCHANGED otherThanSync

InCycle == pc \in {"posting", "marking"}

\* The aggregator goes down (rejects, or the network is lost) or comes back.
AggregatorChange ==
    /\ aggregator' = IF aggregator = "up" THEN "down" ELSE "up"
    /\ allOk' = IF InCycle THEN allOk /\ aggregator' = "up" ELSE allOk
    /\ allBad' = IF InCycle THEN allBad /\ aggregator' = "down" ELSE allBad
    /\ UNCHANGED <<netCols, cfgAuth, last_sync, clock, logs, pc,
                   unsynced_logs, i, synced_ids, outcome, startLogs,
                   posted, wrote, prevBad, activity>>
    /\ UNCHANGED otherThanSync

(***************************************************************************)
(* The uploader: main.py online_background_worker running sync.py          *)
(* sync_logs.  A cycle blocks in the network between its steps, so the     *)
(* producers and the aggregator may act between them.                      *)
(***************************************************************************)
\* main.py:414-421: time.sleep(interval) returns and the loop calls sync_logs.
WorkerWake ==
    /\ pc = "sleeping"
    /\ pc' = "start"
    /\ UNCHANGED <<netCols, cfgAuth, last_sync, clock, logs, aggregator,
                   unsynced_logs, i, synced_ids, outcome, startLogs, posted,
                   wrote, allOk, allBad, prevBad, activity>>
    /\ UNCHANGED otherThanSync

\* What a cycle's start records about the cycle before it and about the store.
BeginHistory ==
    /\ prevBad' = IF outcome # "none" /\ allBad THEN Unsynced(startLogs) ELSE {}
    /\ startLogs' = logs
    /\ posted' = <<>>
    /\ wrote' = FALSE
    /\ allOk' = (aggregator = "up")
    /\ allBad' = (aggregator = "down")

\* sync.py:22: `not config.get('connection_key') or not config.get('server_id')`.
not_authenticated_unchecked(auth) == FALSE
not_authenticated(auth) == ~auth

\* sync.py:19-48: the authentication check, then the SELECT of the unsynced rows.
SyncBegin ==
    /\ pc = "start"
    /\ BeginHistory
    /\ synced_ids' = <<>>
    /\ i' = 0
    /\ \/ \* sync.py:22-26: not authenticated, return False
          /\ not_authenticated(cfgAuth)
          /\ outcome' = "not_authenticated"
          /\ pc' = "sleeping"
          /\ unsynced_logs' = <<>>
          /\ activity' = <<>>
       \/ \* sync.py:35-41: the SELECT names source_ip, dest_ip, event_id; on a
          \* table without them sqlite3 raises OperationalError, which leaves
          \* sync_logs and is caught by the worker (main.py:420-421).
          /\ ~not_authenticated(cfgAuth)
          /\ ~netCols
          /\ outcome' = "raised"
          /\ pc' = "sleeping"
          /\ unsynced_logs' = <<>>
          /\ activity' = <<>>
       \/ \* sync.py:43-48: fetchall; nothing to sync, return True
          /\ ~not_authenticated(cfgAuth)
          /\ netCols
          /\ Unsynced(logs) = {}
          /\ outcome' = "nothing"
          /\ pc' = "sleeping"
          /\ unsynced_logs' = <<>>
          /\ activity' = <<>>
       \/ /\ ~not_authenticated(cfgAuth)
          /\ netCols
          /\ Unsynced(logs) # {}
          /\ unsynced_logs' \in QueryUnsynced(logs)
          /\ outcome' = "running"
          /\ pc' = "posting"
          \* sync.py:52 alog.sync_event("Starting sync: ...")
          /\ activity' = <<sync_event("Starting sync", Len(unsynced_logs'))>>
    /\ UNCHANGED <<netCols, cfgAuth, last_sync, clock, logs, aggregator>>
    /\ UNCHANGED otherThanSync

\* sync.py:69-116: one turn of the batch loop: build the batch, POST it, and
\* either collect its ids or break.
SyncPostNoBreak ==
    /\ pc = "posting"
    /\ \E answer \in AnswersOf(aggregator) :
        LET batch == Batch(unsynced_logs, i)
            accepted == answer \in SuccessStatus
        IN  /\ posted' = Append(posted, [ids |-> batch, status |-> answer])
            /\ synced_ids' = IF accepted THEN synced_ids \o batch ELSE synced_ids
            /\ i' = i + batch_size
            /\ pc' = IF i + batch_size < Len(unsynced_logs)
                        THEN "posting" ELSE "marking"
    /\ UNCHANGED <<netCols, cfgAuth, last_sync, clock, logs, aggregator,
                   unsynced_logs, outcome, startLogs, wrote, allOk, allBad,
                   prevBad, activity>>
    /\ UNCHANGED otherThanSync
SyncPost ==
    /\ pc = "posting"
    /\ \E answer \in AnswersOf(aggregator) :
        LET batch == Batch(unsynced_logs, i)
            accepted == answer \in SuccessStatus
        IN  /\ posted' = Append(posted, [ids |-> batch, status |-> answer])
            /\ synced_ids' = IF accepted THEN synced_ids \o batch ELSE synced_ids
            /\ i' = IF accepted THEN i + batch_size ELSE i
            /\ pc' = IF accepted /\ i + batch_size < Len(unsynced_logs)
                        THEN "posting" ELSE "marking"
    /\ UNCHANGED <<netCols, cfgAuth, last_sync, clock, logs, aggregator,
                   unsynced_logs, outcome, startLogs, wrote, allOk, allBad,
                   prevBad, activity>>
    /\ UNCHANGED otherThanSync

\* sync.py:118-138: mark the collected ids in chunks, commit, write last_sync.
SyncFinishAlwaysWrites ==
    /\ pc = "marking"
    /\ logs' = IF synced_ids # <<>> THEN MarkSynced(logs, synced_ids, 0) ELSE logs
    /\ last_sync' = clock
    /\ wrote' = TRUE
    /\ activity' = Append(activity, sync_event("Sync complete", Len(synced_ids)))
    /\ outcome' = "done"
    /\ pc' = "sleeping"
    /\ UNCHANGED <<netCols, cfgAuth, clock, aggregator, unsynced_logs, i,
                   synced_ids, startLogs, posted, allOk, allBad, prevBad>>
    /\ UNCHANGED otherThanSync
SyncFinish ==
    /\ pc = "marking"
    /\ IF synced_ids # <<>>
          THEN /\ logs' = MarkSynced(logs, synced_ids, 0)
               /\ last_sync' = clock
               /\ wrote' = TRUE
               \* sync.py:132 alog.sync_event("Sync complete: ...")
               /\ activity' = Append(activity,
                                     sync_event("Sync complete", Len(synced_ids)))
          ELSE UNCHANGED <<logs, last_sync, wrote, activity>>
    /\ outcome' = "done"
    /\ pc' = "sleeping"
    /\ UNCHANGED <<netCols, cfgAuth, clock, aggregator, unsynced_logs, i,
                   synced_ids, startLogs, posted, allOk, allBad, prevBad>>
    /\ UNCHANGED otherThanSync

SyncNext ==
    \/ Insert
    \/ ClockAdvance
    \/ ClockStepBack
    \/ AggregatorChange
    \/ WorkerWake
    \/ SyncBegin
    \/ SyncPost
    \/ SyncFinish

(***************************************************************************)
(* The threat detector: detector.py ThreatDetector.                        *)
(***************************************************************************)
\* detector.py:24-31.  The windows and the cooldown are the code's, in
\* seconds.  The thresholds are counts of lines: the code's are 5, 15, 50 and
\* 20; the model scales them, the flood threshold staying the largest, so that
\* a window can fill.
BRUTE_FORCE_THRESHOLD == 1
BRUTE_FORCE_WINDOW == 60
PORT_SCAN_THRESHOLD == 1
PORT_SCAN_WINDOW == 30
FLOOD_THRESHOLD == 2
FLOOD_WINDOW == 10
ERROR_SPIKE_THRESHOLD == 1
ERROR_SPIKE_WINDOW == 30
\* detector.py:259
ALERT_COOLDOWN == 300

\* The detector's clock moves in steps of ClockStep seconds or by a whole
\* cooldown, from its first reading up to MaxNow.  A window takes lines until
\* it holds its threshold; then the clock has to move on.
ClockStep == 150
FirstReading == ALERT_COOLDOWN
MaxNow == FirstReading + ALERT_COOLDOWN

\* The arguments of analyze.  A message is what the detector's regular
\* expressions see of it: whether a malicious pattern matches
\* (_check_patterns), whether it names an authentication failure
\* (_is_auth_fail), and the destination port it carries (_extract_dport).
\* Calls the code cannot tell apart are taken once: analyze returns on a
\* pattern before it looks at anything else, and it looks for an
\* authentication failure and a port only when it is given a source IP.
Sources == {"/var/log/auth.log"}
IPs == {"10.0.0.1"}
NoIp == "None"
NoPort == 0
Ports == 1..PORT_SCAN_THRESHOLD
Levels == {"INFO", "ERROR"}
Calls ==
    {c \in [source : Sources, level : Levels, source_ip : IPs \cup {NoIp},
            pattern : BOOLEAN, auth_fail : BOOLEAN,
            dport : Ports \cup {NoPort}] :
        /\ c.pattern => (c.source_ip = NoIp /\ c.level = "INFO")
        /\ c.source_ip = NoIp => (~c.auth_fail /\ c.dport = NoPort)}

\* detector.py:23-31: the thresholds analyze compares its counts with.
Thresholds == [brute |-> BRUTE_FORCE_THRESHOLD, scan |-> PORT_SCAN_THRESHOLD,
               flood |-> FLOOD_THRESHOLD, error |-> ERROR_SPIKE_THRESHOLD]

RateKinds == {"brute", "scan", "flood", "error"}
AlertKeys == ({"brute", "scan"} \X IPs) \cup ({"flood"} \X Sources)
                \cup {<<"error", "_global_">>}
Stores == {"_alerted_brute", "_alerted_scan", "_alerted_flood"}
StoreKeys == IPs \cup Sources \cup {"_global_"}

\* detector.py:199-202 SlidingWindow._cull
NoCull(evs, cutoff) == evs
RECURSIVE Cull(_, _)
Cull(evs, cutoff) ==
    IF evs # <<>> /\ Head(evs) < cutoff THEN Cull(Tail(evs), cutoff) ELSE evs

\* detector.py:190-193 SlidingWindow.add
Add(evs, t, window) == Cull(Append(evs, t), t - window)

\* detector.py:195-197 SlidingWindow.count
Count(evs, t, window) == Len(Cull(evs, t - window))

\* detector.py:221-224 SetSlidingWindow._cull
RECURSIVE CullSet(_, _)
CullSet(evs, cutoff) ==
    IF evs # <<>> /\ Head(evs).t < cutoff THEN CullSet(Tail(evs), cutoff) ELSE evs

\* detector.py:212-215 SetSlidingWindow.add
AddValue(evs, t, v, window) == CullSet(Append(evs, [t |-> t, v |-> v]), t - window)

\* detector.py:217-219 SetSlidingWindow.unique_count
CountWithRepeats(evs, t, window) == Len(CullSet(evs, t - window))
UniqueCount(evs, t, window) ==
    Cardinality({e.v : e \in SeqToSet(CullSet(evs, t - window))})

\* detector.py:404-409: the store a kind's cooldown is kept in; 'error' reuses
\* the brute-force store.
StoreOf(kind) ==
    IF kind \in {"brute", "error"} THEN "_alerted_brute"
    ELSE IF kind = "scan" THEN "_alerted_scan" ELSE "_alerted_flood"

\* detector.py:410-415 _should_alert: the value returned ...
ShouldAlert(al, kind, key, t) == t - al[StoreOf(kind)][key] >= ALERT_COOLDOWN

\* ... and the store it leaves.
AlertedNotStored(al, kind, key, t) == al
AlertedWholeStore(al, kind, key, t) ==
    IF ShouldAlert(al, kind, key, t)
        THEN [al EXCEPT ![StoreOf(kind)] = [k \in StoreKeys |-> t]] ELSE al
Alerted(al, kind, key, t) ==
    IF ShouldAlert(al, kind, key, t)
        THEN [al EXCEPT ![StoreOf(kind)][key] = t] ELSE al

\* detector.py: "if <count> >= THRESHOLD: if self._should_alert(kind, key):
\* return ThreatEvent(...)" on the detector state d.
Gate(d, kind, key, t, reached) ==
    IF reached /\ ShouldAlert(d.alerted, kind, key, t)
        THEN [d EXCEPT !.alerted = Alerted(d.alerted, kind, key, t),
                       !.event = kind,
                       !.key = key]
        ELSE d

\* detector.py:282-298
BruteStage(th, d, ip, m, t) ==
    IF ip # NoIp /\ m.auth_fail
        THEN LET w == Add(d.brute[ip], t, BRUTE_FORCE_WINDOW)
             IN  Gate([d EXCEPT !.brute[ip] = w], "brute", ip, t,
                      Count(w, t, BRUTE_FORCE_WINDOW) >= th.brute)
        ELSE d

\* detector.py:300-316
ScanStageAfterReturn(th, d, ip, m, t) ==
    IF ip # NoIp /\ m.dport # NoPort
        THEN LET w == AddValue(d.scan[ip], t, m.dport, PORT_SCAN_WINDOW)
             IN  Gate([d EXCEPT !.scan[ip] = w], "scan", ip, t,
                      UniqueCount(w, t, PORT_SCAN_WINDOW) >= th.scan)
        ELSE d
ScanStage(th, d, ip, m, t) ==
    IF d.event = "none" /\ ip # NoIp /\ m.dport # NoPort
        THEN LET w == AddValue(d.scan[ip], t, m.dport, PORT_SCAN_WINDOW)
             IN  Gate([d EXCEPT !.scan[ip] = w], "scan", ip, t,
                      UniqueCount(w, t, PORT_SCAN_WINDOW) >= th.scan)
        ELSE d

\* detector.py:318-331
FloodStageAfterReturn(th, d, source, t) ==
    LET w == Add(d.flood[source], t, FLOOD_WINDOW)
    IN  Gate([d EXCEPT !.flood[source] = w], "flood", source, t,
             Count(w, t, FLOOD_WINDOW) >= th.flood)
FloodStage(th, d, source, t) ==
    IF d.event = "none"
        THEN LET w == Add(d.flood[source], t, FLOOD_WINDOW)
             IN  Gate([d EXCEPT !.flood[source] = w], "flood", source, t,
                      Count(w, t, FLOOD_WINDOW) >= th.flood)
        ELSE d

\* detector.py:333-345
ErrorStage(th, d, level, t) ==
    IF d.event = "none" /\ level \in {"ERROR", "CRITICAL"}
        THEN LET w == Add(d.errors, t, ERROR_SPIKE_WINDOW)
             IN  Gate([d EXCEPT !.errors = w], "error", "_global_", t,
                      Count(w, t, ERROR_SPIKE_WINDOW) >= th.error)
        ELSE d

\* detector.py:263-347 analyze, with the thresholds th.  Its clock readings
\* are microseconds apart; the call is taken at one reading t.
AnalyzeFrom(th, d, source, level, m, ip, t) ==
    IF m.pattern
        THEN [d EXCEPT !.event = "pattern", !.key = source]
        ELSE ErrorStage(th,
                        FloodStage(th,
                                   ScanStage(th, BruteStage(th, d, ip, m, t),
                                             ip, m, t),
                                   source, t),
                        level, t)

LastTwo(s) == IF Len(s) > 2 THEN Tail(s) ELSE s

\* detector.py:237-259 __init__
DetectorInit ==
    /\ now = FirstReading
    /\ brute = [ip \in IPs |-> <<>>]
    /\ scan = [ip \in IPs |-> <<>>]
    /\ flood = [s \in Sources |-> <<>>]
    /\ errors = <<>>
    /\ alerted = [s \in Stores |-> [k \in StoreKeys |-> 0]]
    /\ event = "none"
    /\ emitted = [k \in AlertKeys |-> <<>>]

Analyze ==
    /\ \E c \in Calls :
        LET d == AnalyzeFrom(Thresholds,
                             [brute |-> brute, scan |-> scan, flood |-> flood,
                              errors |-> errors, alerted |-> alerted,
                              event |-> "none", key |-> ""],
                             c.source, c.level, c, c.source_ip, now)
        IN  /\ \A k \in IPs : Len(d.brute[k]) <= BRUTE_FORCE_THRESHOLD
                              /\ Len(d.scan[k]) <= PORT_SCAN_THRESHOLD
            /\ \A s \in Sources : Len(d.flood[s]) <= FLOOD_THRESHOLD
            /\ Len(d.errors) <= ERROR_SPIKE_THRESHOLD
            /\ brute' = d.brute
            /\ scan' = d.scan
            /\ flood' = d.flood
            /\ errors' = d.errors
            /\ alerted' = d.alerted
            /\ event' = d.event
            /\ emitted' = IF d.event \in RateKinds
                             THEN [emitted EXCEPT ![<<d.event, d.key>>] =
                                        LastTwo(Append(@, now))]
                             ELSE emitted
    /\ UNCHANGED now
    /\ UNCHANGED otherThanDetector

\* Time passes between two lines.
DetectorTick ==
    /\ \E step \in {ClockStep, ALERT_COOLDOWN} :
        /\ now + step <= MaxNow
        /\ now' = now + step
    /\ UNCHANGED <<brute, scan, flood, errors, alerted, event, emitted>>
    /\ UNCHANGED otherThanDetector

\* The wall clock is set back, by a whole cooldown.
DetectorClockBack ==
    /\ now - ALERT_COOLDOWN >= FirstReading
    /\ now' = now - ALERT_COOLDOWN
    /\ UNCHANGED <<brute, scan, flood, errors, alerted, event, emitted>>
    /\ UNCHANGED otherThanDetector

DetectorNext ==
    \/ Analyze
    \/ DetectorTick
    \/ DetectorClockBack

(***************************************************************************)
(* The file tracker: tail.py SmartLogHandler on one tracked path, fed by   *)
(* watchdog's observer.  The observer queues one event per filesystem      *)
(* operation on the path and one thread hands them to the handler in       *)
(* order, so a callback runs to its end before the next begins, while the  *)
(* writer and the rotation go on beside it.  on_moved (tail.py:113-116)    *)
(* does nothing, so renames queue no event here.                           *)
(***************************************************************************)
\* Lines the writer writes, files that replace the first one at the path, and
\* events the queue holds.
MaxLines == 2
MaxRotations == 1
MaxQueue == 3

\* A byte is a number; NL is the newline.  The writer's k-th line is two
\* bytes k and the newline, so every line is different from the others and
\* can be written in pieces.
NL == 0
Line(k) == <<k, k, NL>>
\* The line the file may hold before tracking begins.
OldLine == <<MaxLines + 1, MaxLines + 1, NL>>

\* No file at the path: os.stat and open raise FileNotFoundError.
Absent == 0

\* Python's readlines() on the bytes left after the handle's position: one
\* element per newline-terminated line, plus the unterminated rest if any.
RECURSIVE SplitLines(_, _)
SplitLines(bytes, cur) ==
    IF bytes = <<>> THEN (IF cur = <<>> THEN <<>> ELSE <<cur>>)
    ELSE IF Head(bytes) = NL
        THEN <<Append(cur, NL)>> \o SplitLines(Tail(bytes), <<>>)
        ELSE SplitLines(Tail(bytes), Append(cur, Head(bytes)))

\* tail.py:102: lines = f.readlines()
ReadLines(bytes, pos) ==
    IF pos >= Len(bytes) THEN <<>>
    ELSE SplitLines(SubSeq(bytes, pos + 1, Len(bytes)), <<>>)

\* tail.py:199: line = line.strip(); the newline is the only white space here.
RECURSIVE Strip(_)
Strip(line) ==
    IF line # <<>> /\ line[Len(line)] = NL
        THEN Strip(SubSeq(line, 1, Len(line) - 1))
    ELSE IF line # <<>> /\ Head(line) = NL THEN Strip(Tail(line))
    ELSE line

\* tail.py:198-200: the lines _process_lines goes on with: stripped, the
\* empty ones skipped.
RECURSIVE Processed(_)
Processed(lines) ==
    IF lines = <<>> THEN <<>>
    ELSE IF Strip(Head(lines)) = <<>> THEN Processed(Tail(lines))
    ELSE <<Strip(Head(lines))>> \o Processed(Tail(lines))

\* tail.py:66-78 _reopen_file: a fresh handle at position 0, offset 0.
Reopened(inode) == [inode |-> inode, offset |-> 0, pos |-> 0, closed |-> FALSE]

\* tail.py:95-98: the truncation check of on_modified.
TruncationNoSeek(tr, st_size) ==
    IF st_size < tr.offset THEN [tr EXCEPT !.offset = 0] ELSE tr
TruncationCheck(tr, st_size) ==
    IF st_size < tr.offset THEN [tr EXCEPT !.pos = 0, !.offset = 0] ELSE tr

\* tail.py:39-49 _track_file at construction: the handle at the end of the
\* file as it is then.
TailStart(bytes) ==
    /\ ino = 1
    /\ made = 1
    /\ content = bytes
    /\ events = <<>>
    /\ tracker = [inode |-> 1, offset |-> Len(bytes), pos |-> Len(bytes),
                  closed |-> FALSE]
    /\ delivered = [n \in 1..(1 + MaxRotations) |-> <<>>]
    /\ wline = 1
    /\ wpos = 0
    /\ startOffset = Len(bytes)
    /\ truncated = FALSE
    /\ pieces = FALSE
    /\ truncatedSince = FALSE
    /\ wake = [afterTruncation |-> FALSE, below |-> FALSE, start |-> 0,
               read |-> <<>>, content |-> <<>>]

TailInit == \E bytes \in {<<>>, OldLine} : TailStart(bytes)

\* The writer appends the next n bytes of its line to the file at the path.
Write ==
    /\ ino # Absent
    /\ wline <= MaxLines
    /\ Len(events) < MaxQueue
    /\ \E n \in 1..(Len(Line(wline)) - wpos) :
        /\ content' = content \o SubSeq(Line(wline), wpos + 1, wpos + n)
        /\ wpos' = IF wpos + n = Len(Line(wline)) THEN 0 ELSE wpos + n
        /\ wline' = IF wpos + n = Len(Line(wline)) THEN wline + 1 ELSE wline
        /\ pieces' = (pieces \/ n < Len(Line(wline)))
    /\ events' = Append(events, "modified")
    /\ UNCHANGED <<ino, made, tracker, delivered, startOffset, truncated,
                   truncatedSince, wake>>
    /\ UNCHANGED otherThanTail

\* The file is cut to length 0 in place (copytruncate, "> file").
Truncate ==
    /\ ino # Absent
    /\ ~truncated
    /\ content # <<>>
    /\ Len(events) < MaxQueue
    /\ content' = <<>>
    /\ truncated' = TRUE
    /\ truncatedSince' = TRUE
    /\ events' = Append(events, "modified")
    /\ UNCHANGED <<ino, made, tracker, delivered, wline, wpos, startOffset,
                   pieces, wake>>
    /\ UNCHANGED otherThanTail

\* Rotation, first half: the file is renamed away from the path.
Rename ==
    /\ ino # Absent
    /\ made <= MaxRotations
    /\ ino' = Absent
    /\ content' = <<>>
    /\ truncatedSince' = FALSE
    /\ UNCHANGED <<made, events, tracker, delivered, wline, wpos, startOffset,
                   truncated, pieces, wake>>
    /\ UNCHANGED otherThanTail

\* Rotation, second half: a fresh empty file, with a new inode, is created at
\* the path.
Create ==
    /\ ino = Absent
    /\ Len(events) < MaxQueue
    /\ made' = made + 1
    /\ ino' = made + 1
    /\ content' = <<>>
    /\ truncated' = FALSE
    /\ pieces' = (wpos # 0)
    /\ events' = Append(events, "created")
    /\ UNCHANGED <<tracker, delivered, wline, wpos, startOffset,
                   truncatedSince, wake>>
    /\ UNCHANGED otherThanTail

\* tail.py:83-111 on_modified, with the _process_lines it calls.
OnModified ==
    /\ events # <<>>
    /\ Head(events) = "modified"
    /\ events' = Tail(events)
    /\ IF ino = Absent
          THEN \* tail.py:107-109: os.stat raises FileNotFoundError
               UNCHANGED <<tracker, delivered, truncatedSince, wake>>
          ELSE LET st_size == Len(content)
                   t1 == IF ino # tracker.inode THEN Reopened(ino) ELSE tracker
                   t2 == TruncationCheck(t1, st_size)
                   \* reading a closed handle raises ValueError (tail.py:110)
                   lines == IF t2.closed THEN <<>> ELSE ReadLines(content, t2.pos)
                   t3 == IF lines # <<>>
                            THEN [t2 EXCEPT !.pos = st_size, !.offset = st_size]
                            ELSE t2
               IN  /\ tracker' = t3
                   /\ delivered' = [delivered EXCEPT ![t3.inode] =
                                        @ \o Processed(lines)]
                   /\ wake' = [afterTruncation |->
                                    truncatedSince /\ ino = tracker.inode,
                               below |-> st_size < t1.offset,
                               start |-> t2.pos,
                               read |-> Processed(lines),
                               content |-> content]
                   /\ truncatedSince' = FALSE
    /\ UNCHANGED <<ino, made, content, wline, wpos, startOffset, truncated,
                   pieces>>
    /\ UNCHANGED otherThanTail

\* tail.py:118-122 on_created: _reopen_file whatever the tracker holds.
OnCreated ==
    /\ events # <<>>
    /\ Head(events) = "created"
    /\ events' = Tail(events)
    /\ tracker' = IF ino = Absent
                     THEN \* tail.py:62-63 closed the old handle; open raised
                          [tracker EXCEPT !.closed = TRUE]
                     ELSE Reopened(ino)
    /\ UNCHANGED <<ino, made, content, delivered, wline, wpos, startOffset,
                   truncated, pieces, truncatedSince, wake>>
    /\ UNCHANGED otherThanTail

TailNext ==
    \/ Write
    \/ Truncate
    \/ Rename
    \/ Create
    \/ OnModified
    \/ OnCreated

(***************************************************************************)
(* The producers and the store: db.py init_db and insert_log, and the      *)
(* callers of insert_log: the tailer (tail.py _process_lines), the         *)
(* shell-history watcher (tail.py ShellHistoryWatcher.run) and the         *)
(* one-shot ingest (scan.py scan_logs).                                    *)
(***************************************************************************)
\* Lines the producers go through.
MaxCalls == 3

\* A keyword argument left out of a call, a column without a value.
Unset == "None"

\* The log files and, of the substrings the classifiers look for, the ones
\* each path and each file name contains.
LogPaths == {"/var/log/auth.log", "/var/log/nginx/access.log", "/var/log/syslog",
             "/var/log/dpkg.log"}
Needles ==
    [p \in LogPaths |->
        IF p = "/var/log/auth.log"
            THEN [path |-> {"auth", "auth.log"}, name |-> {"auth", "auth.log"}]
        ELSE IF p = "/var/log/nginx/access.log"
            THEN [path |-> {"nginx"}, name |-> {}]
        ELSE IF p = "/var/log/syslog"
            THEN [path |-> {"syslog"}, name |-> {"syslog"}]
        ELSE [path |-> {"dpkg"}, name |-> {"dpkg"}]]
AnyIn(needles, found) == needles \cap found # {}

HistoryPath == "/home/user/.bash_history"
LogLines == {"Failed password for root from 10.0.0.1 port 22",
             "session opened for user root"}
Commands == {"ls -la", "export API_KEY=abc123"}

\* user_activity.py:27-44 SENSITIVE_PATTERNS, should_filter_line: of the
\* commands above, the ones a pattern matches ("api[_-]?key", "export\s+.*KEY").
should_filter_line(line) == line \in {"export API_KEY=abc123"}

\* user_activity.py:46-51
sanitize_command(cmd) ==
    IF should_filter_line(cmd) THEN "[FILTERED: Contains sensitive data]" ELSE cmd

\* tail.py:180-193: the label _process_lines gives a path.
Label(p) ==
    LET name == Needles[p].name
        path_lower == Needles[p].path
    IN  IF AnyIn({"auth", "secure", "ufw", "audit", "fail2ban"}, name)
            THEN "Security"
        ELSE IF AnyIn({"nginx", "apache", "httpd"}, path_lower)
            THEN "Web Server"
        ELSE IF AnyIn({"mysql", "postgres", "redis", "mongo"}, path_lower)
            THEN "Database"
        ELSE IF AnyIn({"dpkg", "apt", "yum", "dnf"}, name)
            THEN "Package Mgmt"
        ELSE IF AnyIn({"kern", "boot", "dmesg", "syslog"}, name)
            THEN "Kernel/System"
        ELSE "System"

\* scan.py:181-254 categorize_log: category, subcategory, privacy level.
categorize_log(p) ==
    LET s == Needles[p].path
        name == Needles[p].name
    IN  IF AnyIn({"auth.log", "secure", "faillog", "btmp", "ufw", "fail2ban",
                  "audit", "apparmor", "firewall"}, s)
            THEN IF AnyIn({"fail", "btmp"}, s)
                    THEN <<"Security", "Failed Authentication", "internal">>
                 ELSE IF AnyIn({"ufw", "firewall"}, s)
                    THEN <<"Security", "Firewall", "internal">>
                 ELSE IF AnyIn({"audit", "apparmor"}, s)
                    THEN <<"Security", "Policy Violations", "internal">>
                 ELSE IF AnyIn({"wtmp", "utmp", "lastlog"}, s)
                    THEN <<"Security", "Login Tracking", "internal">>
                 ELSE <<"Security", "Login Attempts", "internal">>
        ELSE IF AnyIn({"nginx", "apache", "httpd", "mysql", "postgres", "redis",
                       "mongodb", "sudo", "dpkg", "apt", "yum", "dnf"}, s)
            THEN IF AnyIn({"nginx", "apache", "httpd"}, s)
                    THEN IF "error" \in name
                            THEN <<"Administrator", "Web Server Errors", "internal">>
                            ELSE <<"Administrator", "Web Server", "public">>
                 ELSE IF AnyIn({"mysql", "postgres", "redis", "mongodb"}, s)
                    THEN IF "error" \in name
                            THEN <<"Administrator", "Database Errors", "internal">>
                            ELSE <<"Administrator", "Database", "internal">>
                 ELSE IF AnyIn({"sudo", "/root/"}, s)
                    THEN <<"Administrator", "Root Actions", "sensitive">>
                 ELSE IF AnyIn({"dpkg", "apt", "yum", "dnf"}, s)
                    THEN <<"Administrator", "Configuration Changes", "internal">>
                 ELSE <<"Administrator", "Application", "internal">>
        ELSE IF AnyIn({"bash_history", "zsh_history", "fish_history", ".mozilla",
                       "chrome", "chromium", ".xsession"}, s)
            THEN IF "history" \in name /\ AnyIn({"bash", "zsh", "fish"}, s)
                    THEN <<"User Activity", "Shell History", "sensitive">>
                 ELSE IF AnyIn({".mozilla", "chrome", "chromium", "places.sqlite"}, s)
                    THEN <<"User Activity", "Browser History", "sensitive">>
                 ELSE IF "recently-used" \in s
                    THEN <<"User Activity", "File Access", "sensitive">>
                 ELSE <<"User Activity", "Session", "internal">>
        ELSE IF AnyIn({"kern", "dmesg"}, name)
            THEN <<"System", "Kernel", "public">>
        ELSE IF "boot" \in name
            THEN <<"System", "Startup/Shutdown", "public">>
        ELSE IF "xorg" \in name \/ "hardware" \in s
            THEN <<"System", "Hardware", "public">>
        ELSE <<"System", "OS Events", "public">>

\* db.py:139-184 _classify_log, which the migration of old rows uses:
\* category and subcategory.
classify_log(p) ==
    LET s == Needles[p].path
    IN  IF AnyIn({"auth.log", "secure", "faillog", "btmp", "ufw", "fail2ban",
                  "audit", "apparmor"}, s)
            THEN IF AnyIn({"fail", "btmp"}, s)
                    THEN <<"Security", "Failed Authentication">>
                 ELSE IF AnyIn({"ufw", "firewall"}, s)
                    THEN <<"Security", "Firewall">>
                 ELSE IF "audit" \in s
                    THEN <<"Security", "Policy Violations">>
                 ELSE <<"Security", "Login Attempts">>
        ELSE IF AnyIn({"nginx", "apache", "httpd", "mysql", "postgres", "redis",
                       "mongodb", "sudo"}, s)
            THEN IF AnyIn({"nginx", "apache", "httpd"}, s)
                    THEN <<"Administrator", "Web Server">>
                 ELSE IF AnyIn({"mysql", "postgres", "redis", "mongodb"}, s)
                    THEN <<"Administrator", "Database">>
                 ELSE IF "sudo" \in s
                    THEN <<"Administrator", "Root Actions">>
                 ELSE <<"Administrator", "Application">>
        ELSE IF AnyIn({"bash_history", "zsh_history", "fish_history", ".mozilla",
                       "chrome", "chromium"}, s)
            THEN IF "history" \in s /\ AnyIn({"bash", "zsh", "fish"}, s)
                    THEN <<"User Activity", "Shell History">>
                 ELSE IF AnyIn({".mozilla", "chrome", "chromium"}, s)
                    THEN <<"User Activity", "Browser History">>
                 ELSE <<"User Activity", "Session">>
        ELSE IF AnyIn({"kern", "dmesg"}, s)
            THEN <<"System", "System">>
        ELSE <<"System", "Other">>

\* db.py:16-26: the columns CREATE TABLE gives a new logs table.
CreateColumns == {"id", "source", "level", "message", "timestamp", "meta", "type"}
\* db.py:28-59: the columns init_db adds when they are missing.
MigratedColumns == {"type", "synced", "server_id", "log_category",
                    "log_subcategory", "privacy_level"}
\* db.py:13-70 init_db on a store with the columns cols.
InitDbColumns(cols) ==
    (IF cols = {} THEN CreateColumns ELSE cols) \cup MigratedColumns

\* db.py:72-73: the parameters of insert_log.
InsertLogParams == {"source", "level", "message", "meta", "log_type",
                    "log_category", "log_subcategory", "privacy_level"}
\* db.py:98-99: the columns its INSERT names.
InsertColumns == {"source", "level", "message", "timestamp", "meta", "type",
                  "log_category", "log_subcategory", "privacy_level"}
\* sync.py:35-41: the columns the uploader's SELECT names.
SelectColumns == {"id", "source", "level", "message", "timestamp", "type",
                  "server_id", "source_ip", "dest_ip", "event_id", "synced"}

\* db.py:91-92: the category of the record a call describes.
CategoryOf(call) ==
    IF call.log_category = Unset THEN call.log_type ELSE call.log_category

\* How a call of insert_log ends on a store with the columns cols: Python
\* raises TypeError for a keyword the function does not have, before its body
\* runs; sqlite3 raises OperationalError for a missing table or column, which
\* insert_log prints and swallows (db.py:105-106).
OutcomeOf(call, cols) ==
    IF ~(call.keywords \subseteq InsertLogParams) THEN "TypeError"
    ELSE IF ~(InsertColumns \subseteq cols) THEN "OperationalError"
    ELSE "stored"

\* db.py:97-104: the row the INSERT writes; "by" records the producer.
RowOf(call) ==
    [by |-> call.by, source |-> call.source, message |-> call.message,
     type |-> call.log_type, log_category |-> CategoryOf(call),
     privacy_level |-> call.privacy_level]

\* db.py:72-108 insert_log, called on a store with the columns cols.
InsertLog(call, cols) ==
    /\ rows' = IF OutcomeOf(call, cols) = "stored"
                  THEN Append(rows, RowOf(call)) ELSE rows
    /\ lastCall' = [call |-> call, outcome |-> OutcomeOf(call, cols)]

\* The stores the program may find: none, the table of a release that had
\* neither type nor the later columns, the table its CREATE makes.
StoreShapes == {{}, CreateColumns \ {"type"}, CreateColumns}

ProducersStart(cols) ==
    /\ columns = cols
    /\ opened = FALSE
    /\ rows = <<>>
    /\ handled = <<>>
    /\ lastCall = <<>>

ProducersInit == \E cols \in StoreShapes : ProducersStart(cols)

\* init_db, as main.py:88 (scan) and db.py:112 (get_db_connection, for the
\* uploader) call it.
OpenStore ==
    /\ columns' = InitDbColumns(columns)
    /\ opened' = TRUE
    /\ UNCHANGED <<rows, handled, lastCall>>
    /\ UNCHANGED otherThanProducers

\* tail.py:198-236: _process_lines on one stripped, non-empty line of a
\* tracked path.  The call passes source_ip, dest_ip and event_id; what it
\* raises is swallowed by "except: pass".  The default of privacy_level is
\* "public" (db.py:73).
TailerLine ==
    /\ Len(handled) < MaxCalls
    /\ \E p \in LogPaths, line \in LogLines :
        /\ handled' = Append(handled, [by |-> "tailer", source |-> p,
                                       message |-> line])
        /\ InsertLog([by |-> "tailer",
                      keywords |-> {"source", "level", "message", "log_type",
                                    "source_ip", "dest_ip", "event_id"},
                      source |-> p, message |-> line, log_type |-> Label(p),
                      log_category |-> Unset, privacy_level |-> "public"],
                     columns)
    /\ UNCHANGED <<columns, opened>>
    /\ UNCHANGED otherThanProducers

\* tail.py:303-330: ShellHistoryWatcher.run on one new command of a history
\* file (empty lines and lines that begin with # are skipped).
WatcherLine ==
    /\ Len(handled) < MaxCalls
    /\ \E cmd \in Commands :
        /\ handled' = Append(handled, [by |-> "watcher", source |-> HistoryPath,
                                       message |-> cmd])
        /\ InsertLog([by |-> "watcher",
                      keywords |-> {"source", "level", "message", "log_type",
                                    "log_category", "log_subcategory",
                                    "privacy_level"},
                      source |-> HistoryPath, message |-> cmd,
                      log_type |-> "User Activity",
                      log_category |-> "User Activity",
                      privacy_level |-> "sensitive"],
                     columns)
    /\ UNCHANGED <<columns, opened>>
    /\ UNCHANGED otherThanProducers

\* scan.py:393-457: the one-shot ingest on one non-empty line of a found log;
\* scan_logs calls init_db before its loop.
IngestLine ==
    /\ Len(handled) < MaxCalls
    /\ columns' = InitDbColumns(columns)
    /\ opened' = TRUE
    /\ \E p \in LogPaths, line \in LogLines :
        LET c == categorize_log(p)
        IN  /\ handled' = Append(handled, [by |-> "ingest", source |-> p,
                                           message |-> line])
            /\ InsertLog([by |-> "ingest",
                          keywords |-> {"source", "level", "message", "log_type",
                                        "log_category", "log_subcategory",
                                        "privacy_level"},
                          source |-> p, message |-> line, log_type |-> c[1],
                          log_category |-> c[1], privacy_level |-> c[3]],
                         InitDbColumns(columns))
    /\ UNCHANGED otherThanProducers

ProducersNext ==
    \/ OpenStore
    \/ TailerLine
    \/ WatcherLine
    \/ IngestLine

(***************************************************************************)
(* A burst of lines fed to a fresh detector: analyze on what the regular   *)
(* expressions see of each message, with thresholds small enough for a     *)
(* count to grow up to them and in the order of the code's (5, 15, 20, 50).*)
(***************************************************************************)
BurstSize == 2
MaxBurstLines == 4
\* Seconds between two clock readings of the burst.
BurstStep == 60
MaxBurstNow == FirstReading + ALERT_COOLDOWN + BurstStep

BurstThresholds == [brute |-> BurstSize, scan |-> BurstSize,
                    error |-> BurstSize + 1, flood |-> BurstSize + 2]

\* detector.py:36-73 MALICIOUS_PATTERNS, in its order, as the text each
\* regular expression finds: the scanning-tool rule and, last, the rule of
\* authentication failures.
PatternRules == <<[cue |-> "nmap", threat_type |-> "Port Scanner"],
                  [cue |-> "failed password", threat_type |-> "Auth Failure"]>>

\* detector.py:373-387 _check_patterns, for the first rule of rules that
\* matches: the threat type returned, "none" for None.
RECURSIVE FirstMatch(_, _)
FirstMatch(rules, words) ==
    IF rules = <<>> THEN "none"
    ELSE IF Head(rules).cue \in words THEN Head(rules).threat_type
    ELSE FirstMatch(Tail(rules), words)

check_patterns_unskipped(words) == FirstMatch(PatternRules, words)
check_patterns(words) ==
    IF FirstMatch(PatternRules, words) = "Auth Failure" THEN "none"
    ELSE FirstMatch(PatternRules, words)

\* detector.py:389-395 _is_auth_fail
is_auth_fail(words) ==
    words \cap {"failed password", "authentication failure", "invalid user",
                "failed login", "access denied", "login failed",
                "wrong password"} # {}

\* The lines of the burst: the cues a message contains, the source IP and the
\* destination port extracted from it, and the level the tailer gives it
\* (tail.py:202-205: ERROR when it contains "fail").
BurstLines ==
    {[words |-> {"failed password"}, source_ip |-> ip, dport |-> NoPort,
      level |-> "ERROR"] : ip \in IPs \cup {NoIp}}
    \cup {[words |-> {"nmap", "failed password"}, source_ip |-> ip,
           dport |-> NoPort, level |-> "ERROR"] : ip \in IPs}
    \cup {[words |-> {}, source_ip |-> ip, dport |-> port, level |-> "INFO"] :
            ip \in IPs, port \in 1..BurstSize}

\* An auth-failure line and a port line of a source IP.
IsFailureLine(c) == c.source_ip # NoIp /\ c.words = {"failed password"}
IsPortLine(c) == c.source_ip # NoIp /\ c.words = {} /\ c.dport # NoPort

BurstInit ==
    /\ lastLine = <<>>
    /\ fed = 0
    /\ fails = <<>>
    /\ ports = <<>>

\* detector.py:263-347 analyze on one line c of a tailed file, with the
\* thresholds th.
AnalyzeLine(th, c, source) ==
    LET threat == check_patterns(c.words)
        m == [pattern |-> threat # "none",
              auth_fail |-> is_auth_fail(c.words), dport |-> c.dport]
        d == AnalyzeFrom(th,
                         [brute |-> brute, scan |-> scan, flood |-> flood,
                          errors |-> errors, alerted |-> alerted,
                          event |-> "none", key |-> ""],
                         source, c.level, m, c.source_ip, now)
    IN  /\ brute' = d.brute
        /\ scan' = d.scan
        /\ flood' = d.flood
        /\ errors' = d.errors
        /\ alerted' = d.alerted
        /\ event' = IF d.event = "pattern" THEN threat ELSE d.event
        /\ emitted' = IF d.event \in RateKinds
                         THEN [emitted EXCEPT ![<<d.event, d.key>>] =
                                    LastTwo(Append(@, now))]
                         ELSE emitted
        /\ lastLine' = [words |-> c.words, source_ip |-> c.source_ip,
                        dport |-> c.dport, level |-> c.level, t |-> now]
        /\ fails' = IF IsFailureLine(c) THEN Append(fails, now) ELSE fails
        /\ ports' = IF IsPortLine(c)
                       THEN Append(ports, [t |-> now, v |-> c.dport])
                       ELSE ports

\* One line of the burst.
BurstAnalyze ==
    /\ fed < MaxBurstLines
    /\ \E c \in BurstLines, source \in Sources :
        AnalyzeLine(BurstThresholds, c, source)
    /\ fed' = fed + 1
    /\ UNCHANGED now
    /\ UNCHANGED otherThanBurst

\* Time passes between two lines of the burst.
BurstTick ==
    /\ now + BurstStep <= MaxBurstNow
    /\ now' = now + BurstStep
    /\ UNCHANGED <<brute, scan, flood, errors, alerted, event, emitted>>
    /\ UNCHANGED burstVars
    /\ UNCHANGED otherThanBurst

BurstNext ==
    \/ BurstAnalyze
    \/ BurstTick

(***************************************************************************)
(* Lines that meet several rules at once, fed to a fresh detector with the *)
(* thresholds of the detector above.                                       *)
(***************************************************************************)
MaxOrderLines == 4

\* A scanning tool's line, a failed login that names its port (PORT_RE,
\* detector.py:230, finds "port 22"), and lines without a source IP.
OrderLines ==
    {[words |-> {"nmap"}, source_ip |-> NoIp, dport |-> NoPort, level |-> "INFO"],
     [words |-> {"failed password"}, source_ip |-> "10.0.0.1", dport |-> 1,
      level |-> "ERROR"],
     [words |-> {}, source_ip |-> NoIp, dport |-> NoPort, level |-> "ERROR"],
     [words |-> {}, source_ip |-> NoIp, dport |-> NoPort, level |-> "INFO"]}

OrderAnalyze ==
    /\ fed < MaxOrderLines
    /\ \E c \in OrderLines, source \in Sources :
        AnalyzeLine(Thresholds, c, source)
    /\ fed' = fed + 1
    /\ UNCHANGED now
    /\ UNCHANGED otherThanBurst

OrderNext ==
    \/ OrderAnalyze
    \/ BurstTick

(***************************************************************************)
(* A sliding window under a clock that steps back: failed logins of one    *)
(* source IP fed to a fresh detector while time.time() moves forward and,  *)
(* by less than the window, backward.                                      *)
(***************************************************************************)
MaxWindowAdds == 3
\* Seconds the clock moves forward and backward in one step.
WindowForward == 45
WindowBack == 20
MaxWindowNow == FirstReading + 2 * WindowForward

WindowThresholds == [brute |-> MaxWindowAdds, scan |-> MaxWindowAdds,
                     error |-> MaxWindowAdds + 1, flood |-> MaxWindowAdds + 2]

WindowAnalyze ==
    /\ fed < MaxWindowAdds
    /\ \E c \in {l \in BurstLines : IsFailureLine(l)}, source \in Sources :
        AnalyzeLine(WindowThresholds, c, source)
    /\ fed' = fed + 1
    /\ UNCHANGED now
    /\ UNCHANGED otherThanBurst

WindowAdvance ==
    /\ now + WindowForward <= MaxWindowNow
    /\ now' = now + WindowForward
    /\ UNCHANGED <<brute, scan, flood, errors, alerted, event, emitted>>
    /\ UNCHANGED burstVars
    /\ UNCHANGED otherThanBurst

\* The wall clock is set back (NTP step), by less than the window.
WindowStepBack ==
    /\ WindowBack < BRUTE_FORCE_WINDOW
    /\ now - WindowBack >= FirstReading - WindowBack
    /\ now' = now - WindowBack
    /\ UNCHANGED <<brute, scan, flood, errors, alerted, event, emitted>>
    /\ UNCHANGED burstVars
    /\ UNCHANGED otherThanBurst

WindowNext ==
    \/ WindowAnalyze
    \/ WindowAdvance
    \/ WindowStepBack

(***************************************************************************)
(* One invocation of the tailer: tail.py watch_many with the resource      *)
(* guard and the priority scheduler of scheduler.py, the observer's        *)
(* dispatch of on_modified, and a writer appending whole lines.            *)
(***************************************************************************)
\* Paths given to watch_many, and lines appended to their files.
MaxWatched == 2
MaxAppends == 2

Max(a, b) == IF a >= b THEN a ELSE b

\* The hosts: the limits the guard may find.
Hosts ==
    {h \in [is_root : BOOLEAN, soft_fd : {64, 1024}, hard_fd : {64, 1024},
            max_instances : {0, 128}, max_watches : {2, 8192, 1048576},
            sysctl_fails : BOOLEAN] : h.soft_fd <= h.hard_fd}

\* scheduler.py:45, 74-75
needed_fds(file_count) == file_count * 2 + 100
needed_instances(file_count) == (file_count \div 10) + 1
needed_watches(file_count) == file_count * 2

\* scheduler.py:42-62: the descriptor limits.  ok is FALSE where the function
\* returns False.
FdStageSoftKept(h, file_count) ==
    IF h.soft_fd >= needed_fds(file_count) THEN [ok |-> TRUE, host |-> h]
    ELSE IF h.hard_fd >= needed_fds(file_count) THEN [ok |-> TRUE, host |-> h]
    ELSE IF h.is_root
        THEN [ok |-> TRUE,
              host |-> [h EXCEPT !.soft_fd = Max(needed_fds(file_count), 65536),
                                 !.hard_fd = Max(needed_fds(file_count), 65536)]]
    ELSE [ok |-> FALSE, host |-> h]
FdStage(h, file_count) ==
    IF h.soft_fd >= needed_fds(file_count) THEN [ok |-> TRUE, host |-> h]
    ELSE IF h.hard_fd >= needed_fds(file_count)
        THEN [ok |-> TRUE, host |-> [h EXCEPT !.soft_fd = needed_fds(file_count)]]
    ELSE IF h.is_root
        THEN [ok |-> TRUE,
              host |-> [h EXCEPT !.soft_fd = Max(needed_fds(file_count), 65536),
                                 !.hard_fd = Max(needed_fds(file_count), 65536)]]
    ELSE [ok |-> FALSE, host |-> h]

\* scheduler.py:64-120: the inotify limits; an exception of the sysctl
\* command is caught at 122-124.
InotifyStageUnguarded(h, file_count) ==
    IF h.sysctl_fails THEN [ok |-> FALSE, host |-> h]
    ELSE IF ~(h.max_instances < needed_instances(file_count)
              \/ h.max_watches < needed_watches(file_count))
        THEN [ok |-> TRUE, host |-> h]
    ELSE IF ~h.is_root THEN [ok |-> TRUE, host |-> h]
    ELSE [ok |-> TRUE,
          host |-> [h EXCEPT
                        !.max_instances = Max(1024, needed_instances(file_count) * 2),
                        !.max_watches = Max(524288, needed_watches(file_count) * 2)]]
InotifyStage(h, file_count) ==
    IF h.sysctl_fails THEN [ok |-> FALSE, host |-> h]
    ELSE IF ~(h.max_instances < needed_instances(file_count)
              \/ h.max_watches < needed_watches(file_count))
        THEN [ok |-> TRUE, host |-> h]
    ELSE IF ~h.is_root THEN [ok |-> FALSE, host |-> h]
    ELSE [ok |-> TRUE,
          host |-> [h EXCEPT
                        !.max_instances = Max(1024, needed_instances(file_count) * 2),
                        !.max_watches = Max(524288, needed_watches(file_count) * 2)]]

\* scheduler.py:26-124 check_and_fix_system_limits
check_and_fix_system_limits(h, file_count) ==
    LET fd == FdStage(h, file_count)
    IN  IF fd.ok THEN InotifyStage(fd.host, file_count) ELSE fd

\* scheduler.py:127-145 classify_file
classify_file(p) ==
    LET name == Needles[p].name
        path_lower == Needles[p].path
    IN  IF AnyIn({"auth", "secure", "ufw", "audit", "fail2ban"}, name)
            THEN "Security"
        ELSE IF AnyIn({"nginx", "apache", "httpd"}, path_lower)
            THEN "Web Server"
        ELSE IF AnyIn({"mysql", "postgres", "redis", "mongo"}, path_lower)
            THEN "Database"
        ELSE IF AnyIn({"kern", "boot", "dmesg", "syslog"}, name)
            THEN "Kernel/System"
        ELSE IF AnyIn({"dpkg", "apt", "yum", "dnf"}, name)
            THEN "Package Mgmt"
        ELSE IF AnyIn({"app", "service"}, path_lower)
            THEN "Application"
        ELSE "Other"

\* scheduler.py:211-218: the level of a file type; 4 stands for no level.
LevelWithoutElse(file_type) ==
    IF file_type = "Security" THEN 0
    ELSE IF file_type \in {"Web Server", "Database"} THEN 1
    ELSE IF file_type \in {"Kernel/System", "Application"} THEN 2
    ELSE 4
LevelOf(file_type) ==
    IF file_type = "Security" THEN 0
    ELSE IF file_type \in {"Web Server", "Database"} THEN 1
    ELSE IF file_type \in {"Kernel/System", "Application"} THEN 2
    ELSE 3

\* scheduler.py:182-228 assign_priority_levels (schedule_files_multilevel,
\* 231-238, returns it).
assign_priority_levels(paths) ==
    [k \in 0..3 |-> SelectSeq(paths, LAMBDA p : LevelOf(classify_file(p)) = k)]

PathLists ==
    UNION {[1..n -> LogPaths] : n \in 1..MaxWatched}

WatchStart(host, paths) ==
    /\ wpc = "guard"
    /\ limits = host
    /\ filepaths = paths
    /\ levels = <<>>
    /\ tracked = {}
    /\ observing = FALSE
    /\ written = [p \in SeqToSet(paths) |-> 0]
    /\ offset = [p \in SeqToSet(paths) |-> 0]
    /\ handed = [p \in SeqToSet(paths) |-> 0]
    /\ pending = {}
    /\ beat = 0

WatchInit == \E host \in Hosts, paths \in PathLists : WatchStart(host, paths)

\* tail.py:354-359: the guard; watch_many returns when it says no.
WatchGuard ==
    /\ wpc = "guard"
    /\ LET g == check_and_fix_system_limits(limits, Len(filepaths))
       IN  /\ limits' = g.host
           /\ wpc' = IF g.ok THEN "schedule" ELSE "returned"
    /\ UNCHANGED <<filepaths, levels, tracked, observing, written, offset,
                   handed, pending, beat>>
    /\ UNCHANGED otherThanWatch

\* tail.py:361-362
WatchSchedule ==
    /\ wpc = "schedule"
    /\ levels' = assign_priority_levels(filepaths)
    /\ wpc' = "track"
    /\ UNCHANGED <<limits, filepaths, tracked, observing, written, offset,
                   handed, pending, beat>>
    /\ UNCHANGED otherThanWatch

\* tail.py:364, 390-396: SmartLogHandler opens every path at its end
\* (tail.py:39-49), the observer is scheduled on their directories and started.
WatchObserve ==
    /\ wpc = "track"
    /\ tracked' = SeqToSet(filepaths)
    /\ offset' = written
    /\ observing' = TRUE
    /\ wpc' = "loop"
    /\ UNCHANGED <<limits, filepaths, levels, written, handed, pending, beat>>
    /\ UNCHANGED otherThanWatch

\* tail.py:515-517: while not stop_event.is_set(): time.sleep(0.5)
WatchLoop ==
    /\ wpc = "loop"
    /\ beat' = 1 - beat
    /\ UNCHANGED <<wpc, limits, filepaths, levels, tracked, observing, written,
                   offset, handed, pending>>
    /\ UNCHANGED otherThanWatch

\* A writer appends a line to one of the files.  The kernel queues an event
\* for the handler when the observer watches the directory, or the event is
\* lost (queue overflow, a filesystem without notifications).
WriterAppend ==
    /\ Cardinality({pk \in (DOMAIN written) \X (1..MaxAppends) :
                        pk[2] <= written[pk[1]]}) < MaxAppends
    /\ \E p \in SeqToSet(filepaths) :
        /\ written' = [written EXCEPT ![p] = @ + 1]
        /\ \/ observing /\ pending' = pending \cup {p}
           \/ pending' = pending
    /\ UNCHANGED <<wpc, limits, filepaths, levels, tracked, observing, offset,
                   handed, beat>>
    /\ UNCHANGED otherThanWatch

\* tail.py:80-111 on_modified, dispatched by the observer's thread for a
\* queued event: the lines after the handle's position go to _process_lines.
Dispatch ==
    /\ \E p \in pending :
        /\ pending' = pending \ {p}
        /\ IF p \in tracked
              THEN /\ handed' = [handed EXCEPT ![p] = @ + (written[p] - offset[p])]
                   /\ offset' = [offset EXCEPT ![p] = written[p]]
              ELSE UNCHANGED <<handed, offset>>
    /\ UNCHANGED <<wpc, limits, filepaths, levels, tracked, observing, written,
                   beat>>
    /\ UNCHANGED otherThanWatch

WatchNext ==
    \/ WatchGuard
    \/ WatchSchedule
    \/ WatchObserve
    \/ WatchLoop
    \/ WriterAppend
    \/ Dispatch

(***************************************************************************)
(* The handler and the permissions of the files: tail.py SmartLogHandler   *)
(* __init__, _track_file and on_modified, once watch_many is in its loop.  *)
(***************************************************************************)
Modes == {"readable", "denied"}

\* tail.py:28-37, 39-56: __init__ runs _track_file on every path: a path whose
\* open succeeds enters tracked_files with its handle at the end of the file; a
\* path whose open raises PermissionError (errno 13) is appended to
\* failed_perm_paths and does not enter tracked_files.
track_files(paths, modes) ==
    [tracked_files |-> {p \in SeqToSet(paths) : modes[p] = "readable"},
     failed_perm_paths |-> {p \in SeqToSet(paths) : modes[p] = "denied"}]

PermStart(paths, modes) ==
    /\ wpc = "loop"
    /\ limits = [is_root |-> FALSE, soft_fd |-> 1024, hard_fd |-> 1024,
                 max_instances |-> 128, max_watches |-> 8192,
                 sysctl_fails |-> FALSE]
    /\ filepaths = paths
    /\ levels = assign_priority_levels(paths)
    /\ tracked = track_files(paths, modes).tracked_files
    /\ failed_perm_paths = track_files(paths, modes).failed_perm_paths
    /\ observing = TRUE
    /\ written = [p \in SeqToSet(paths) |-> 0]
    /\ offset = [p \in SeqToSet(paths) |-> 0]
    /\ handed = [p \in SeqToSet(paths) |-> 0]
    /\ pending = {}
    /\ beat = 0
    /\ access = modes
    /\ grantedAt = [p \in SeqToSet(paths) |-> 0]

PermInit ==
    \E paths \in PathLists :
        \E modes \in [SeqToSet(paths) -> Modes] : PermStart(paths, modes)

\* An administrator changes the permissions of a file (chmod, chown, a group
\* added to the user).  A handle that is already open keeps reading.
Chmod ==
    /\ \E p \in SeqToSet(filepaths) :
        /\ access' = [access EXCEPT ![p] = IF @ = "denied" THEN "readable" ELSE "denied"]
        /\ grantedAt' = IF access[p] = "denied"
                           THEN [grantedAt EXCEPT ![p] = written[p]]
                           ELSE grantedAt
    /\ UNCHANGED <<failed_perm_paths, watchVars>>
    /\ UNCHANGED otherThanPerm

\* A writer appends a line to one of the files and the observer, which watches
\* the file's directory (tail.py:377-394), queues the event for the handler.
NotifiedAppend ==
    /\ Cardinality({pk \in (DOMAIN written) \X (1..MaxAppends) :
                        pk[2] <= written[pk[1]]}) < MaxAppends
    /\ \E p \in SeqToSet(filepaths) :
        /\ written' = [written EXCEPT ![p] = @ + 1]
        /\ pending' = pending \cup {p}
    /\ UNCHANGED <<wpc, limits, filepaths, levels, tracked, observing, offset,
                   handed, beat>>
    /\ UNCHANGED permVars
    /\ UNCHANGED otherThanPerm

PermNext ==
    \/ Chmod
    \/ NotifiedAppend
    \/ Dispatch

(***************************************************************************)
(* The config file: config.py get_config, set_config, update_config, used  *)
(* by the uploader (sync.py:19, 135) and by the CLI (auth.py, main.py).    *)
(***************************************************************************)
\* What the file holds when it is not a dict: it does not exist, or its bytes
\* are not a JSON document (empty, or a document followed by other bytes).
NoFile == [exists |-> FALSE]
NotJson == [exists |-> TRUE, parses |-> FALSE]
None == 0

\* config.py:19-26: the default when there is no file.
DefaultConfig ==
    [connection_key |-> "None", anon_key |-> "eyJ", last_sync |-> None,
     gemini_api_key |-> None]
\* config.py:33-39: the default when the file does not parse; it has no anon_key.
CorruptedDefault ==
    [connection_key |-> "None", anon_key |-> "absent", last_sync |-> None,
     gemini_api_key |-> None]
\* The file of a registered agent (auth.py:32: update_config on the default).
RegisteredConfig == [DefaultConfig EXCEPT !.connection_key = "key"]

\* config.py:13-39
get_config(file) ==
    IF file = NoFile THEN DefaultConfig
    ELSE IF file = NotJson THEN CorruptedDefault
    ELSE file

\* The uploader writes last_sync (sync.py:135 set_config); the CLI writes the
\* AI key (main.py:601, auth.py:76, 122 update_config).
Updaters == {"uploader", "cli"}

\* config.py:46 config[key] = value, config.py:56 config.update(updates)
Assign(dict, u, value) ==
    IF u = "uploader" THEN [dict EXCEPT !.last_sync = value]
    ELSE [dict EXCEPT !.gemini_api_key = value]

ConfigStart(file) ==
    /\ CONFIG_FILE = file
    /\ upc = [u \in Updaters |-> "idle"]
    /\ config = [u \in Updaters |-> DefaultConfig]
    /\ updates = [u \in Updaters |-> 0]
    /\ loaded = get_config(file)
    /\ committed = {get_config(file)}

ConfigInit == \E file \in {NoFile, RegisteredConfig} : ConfigStart(file)

\* config.py:45-46, 55-56: config = get_config(); the update in memory.
UpdateLoad ==
    /\ \E u \in Updaters :
        /\ upc[u] = "idle"
        /\ updates[u] < MaxUpdates
        /\ config' = [config EXCEPT ![u] = Assign(get_config(CONFIG_FILE), u, updates[u] + 1)]
        /\ upc' = [upc EXCEPT ![u] = "loaded"]
    /\ UNCHANGED <<CONFIG_FILE, updates, loaded, committed>>
    /\ UNCHANGED otherThanConfig

\* config.py:48, 58: open(CONFIG_FILE, 'w') truncates the file.
UpdateOpen ==
    /\ \E u \in Updaters :
        /\ upc[u] = "loaded"
        /\ CONFIG_FILE' = NotJson
        /\ upc' = [upc EXCEPT ![u] = "opened"]
    /\ UNCHANGED <<config, updates, loaded, committed>>
    /\ UNCHANGED otherThanConfig

\* config.py:49, 59: json.dump and the close of the with block write the dict
\* from offset 0.  When another process wrote the file since this one
\* truncated it, the bytes past this dict's length stay, and the file parses
\* only if this dict is at least as long.
UpdateDump ==
    /\ \E u \in Updaters :
        /\ upc[u] = "opened"
        /\ \/ CONFIG_FILE' = config[u]
           \/ CONFIG_FILE # NotJson /\ CONFIG_FILE' = NotJson
        /\ committed' = committed \cup {config[u]}
        /\ updates' = [updates EXCEPT ![u] = @ + 1]
        /\ upc' = [upc EXCEPT ![u] = "idle"]
    /\ UNCHANGED <<config, loaded>>
    /\ UNCHANGED otherThanConfig

\* A reader calls get_config (sync.py:19, auth.py:51, main.py:621).
ConfigRead ==
    /\ loaded' = get_config(CONFIG_FILE)
    /\ UNCHANGED <<CONFIG_FILE, upc, config, updates, committed>>
    /\ UNCHANGED otherThanConfig

ConfigNext ==
    \/ UpdateLoad
    \/ UpdateOpen
    \/ UpdateDump
    \/ ConfigRead

(***************************************************************************)
(* The level of a line: tail.py:198-205 in _process_lines.                 *)
(***************************************************************************)
\* A line is the set of the words in it that matter to the inference.
LevelWords == {"CRITICAL", "Error", "error", "failed", "Warning", "warn", "debug"}

\* str.lower() on a word.
Lower(word) ==
    IF word = "CRITICAL" THEN "critical"
    ELSE IF word = "Error" THEN "error"
    ELSE IF word = "Warning" THEN "warning"
    ELSE word

\* needle in word, for the words above in lower case.
Substring(needle, word) ==
    \/ needle = word
    \/ needle = "fail" /\ word = "failed"
    \/ needle = "warn" /\ word = "warning"

\* needle in l_low
Has(needle, l_low) == \E word \in l_low : Substring(needle, word)

\* tail.py:201-205
InferLevel(line) ==
    LET l_low == {Lower(word) : word \in line}
    IN  IF Has("error", l_low) \/ Has("fail", l_low) THEN "ERROR"
        ELSE IF Has("warn", l_low) THEN "WARN"
        ELSE "INFO"

LevelInit == levelled = <<>>

\* tail.py:198-205: one turn of the loop over the lines read.
LevelLine ==
    /\ Len(levelled) < MaxLevelLines
    /\ \E line \in SUBSET LevelWords :
        levelled' = Append(levelled, [line |-> line, lvl |-> InferLevel(line)])
    /\ UNCHANGED otherThanLevel

LevelNext == LevelLine

(***************************************************************************)
(* The two periodic uploaders: main.py online (the foreground loop) and    *)
(* online_background_worker.  Both call sync.py sync_logs, modelled by the *)
(* actions of the uploader above; they differ in what they catch.          *)
(***************************************************************************)
Tasks == {"online", "online_background_worker"}

UploaderInit == task \in Tasks

\* main.py:414-421: the worker calls sync_logs inside try / except Exception,
\* and sleeps the interval either way.
WorkerBegin ==
    /\ task = "online_background_worker"
    /\ SyncBegin

\* main.py:372-401: the foreground loop calls sync_logs (396) inside a try
\* whose only handler is `except KeyboardInterrupt` (400).  What sync_logs
\* raises (sync.py:35-41, sqlite3.OperationalError) leaves the loop and the
\* command.
OnlineBegin ==
    /\ task = "online"
    /\ pc = "start"
    /\ IF ~not_authenticated(cfgAuth) /\ ~netCols
          THEN /\ BeginHistory
               /\ synced_ids' = <<>>
               /\ i' = 0
               /\ outcome' = "raised"
               /\ pc' = "terminated"
               /\ unsynced_logs' = <<>>
               /\ activity' = <<>>
               /\ UNCHANGED <<netCols, cfgAuth, last_sync, clock, logs, aggregator>>
               /\ UNCHANGED otherThanSync
          ELSE SyncBegin

UploaderNext ==
    \/ Insert
    \/ ClockAdvance
    \/ ClockStepBack
    \/ AggregatorChange
    \/ WorkerWake
    \/ WorkerBegin
    \/ OnlineBegin
    \/ SyncPost
    \/ SyncFinish

(***************************************************************************)
(* The start of the tailer with files it may not read: tail.py watch_many  *)
(* from the guard to the observer, and the restart under sudo.             *)
(***************************************************************************)
OrdinaryHost ==
    [is_root |-> FALSE, soft_fd |-> 1024, hard_fd |-> 1024,
     max_instances |-> 128, max_watches |-> 8192, sysctl_fails |-> FALSE]

EscalationStart(paths, modes) ==
    /\ WatchStart(OrdinaryHost, paths)
    /\ access = modes
    /\ failed_perm_paths = {}
    /\ grantedAt = [p \in SeqToSet(paths) |-> 0]
    /\ reexecs = <<>>

EscalationInit ==
    \E paths \in PathLists :
        \E modes \in [SeqToSet(paths) -> Modes] : EscalationStart(paths, modes)

\* tail.py:364: handler = SmartLogHandler(valid); __init__ opens every path it
\* may read (28-49) and lists the others in failed_perm_paths (51-54).
HandlerConstruct ==
    /\ wpc = "track"
    /\ tracked' = track_files(filepaths, access).tracked_files
    /\ failed_perm_paths' = track_files(filepaths, access).failed_perm_paths
    /\ offset' = written
    /\ wpc' = "prompt"
    /\ UNCHANGED <<limits, filepaths, levels, observing, written, handed,
                   pending, beat>>
    /\ UNCHANGED <<access, grantedAt, reexecs>>
    /\ UNCHANGED otherThanEscalation

\* tail.py:366-388: with a path denied, on a terminal, the user is asked and
\* on "y" the process is replaced by sudo running the same command line;
\* execvp may fail (no sudo), and then watch_many goes on.
EscalationPrompt ==
    /\ wpc = "prompt"
    /\ \E isatty \in BOOLEAN, ans \in {"y", "n"}, execvp_ok \in BOOLEAN :
        IF failed_perm_paths # {} /\ isatty /\ ans = "y" /\ execvp_ok
           THEN /\ reexecs' = Append(reexecs, tracked)
                /\ wpc' = "execed"
           ELSE /\ reexecs' = reexecs
                /\ wpc' = "observe"
    /\ UNCHANGED <<limits, filepaths, levels, tracked, observing, written,
                   offset, handed, pending, beat>>
    /\ UNCHANGED <<access, failed_perm_paths, grantedAt>>
    /\ UNCHANGED otherThanEscalation

\* The process sudo starts: the same command line as root, with no handle
\* of the process it replaced, and every path readable.
SudoRestart ==
    /\ wpc = "execed"
    /\ wpc' = "guard"
    /\ limits' = [limits EXCEPT !.is_root = TRUE]
    /\ tracked' = {}
    /\ levels' = <<>>
    /\ failed_perm_paths' = {}
    /\ access' = [p \in DOMAIN access |-> "readable"]
    /\ UNCHANGED <<filepaths, observing, written, offset, handed, pending, beat>>
    /\ UNCHANGED <<grantedAt, reexecs>>
    /\ UNCHANGED otherThanEscalation

\* tail.py:390-396: the observer is scheduled on the directories and started.
StartObserver ==
    /\ wpc = "observe"
    /\ observing' = TRUE
    /\ wpc' = "loop"
    /\ UNCHANGED <<limits, filepaths, levels, tracked, written, offset, handed,
                   pending, beat>>
    /\ UNCHANGED permVars
    /\ UNCHANGED reexecs
    /\ UNCHANGED otherThanEscalation

EscalationNext ==
    \/ WatchGuard
    \/ WatchSchedule
    \/ HandlerConstruct
    \/ EscalationPrompt
    \/ SudoRestart
    \/ StartObserver

(***************************************************************************)
(* The shell-history watcher: tail.py ShellHistoryWatcher.run on one       *)
(* history file, polled every two seconds while the shells write to it.    *)
(***************************************************************************)
Unseen == 0 - 1
\* The first byte of a line the watcher skips (fish writes "# <time>").
Hash == MaxLines + 2
Comment(k) == <<Hash, k, NL>>
\* What a shell may append as its k-th entry: a command or a comment line.
Entries(k) == {Line(k), Comment(k)}

\* tail.py:303-306: each line stripped; empty ones and those that begin
\* with # are skipped.
RECURSIVE HistoryCommands(_)
HistoryCommands(lines) ==
    IF lines = <<>> THEN <<>>
    ELSE LET cmd == Strip(Head(lines))
         IN  IF cmd = <<>> \/ Head(cmd) = Hash
                THEN HistoryCommands(Tail(lines))
                ELSE <<cmd>> \o HistoryCommands(Tail(lines))

HistoryStart(bytes) ==
    /\ history = bytes
    /\ history_offset = Unseen
    /\ commands = <<>>
    /\ hline = 1
    /\ hpos = 0
    /\ firstSize = 0
    /\ cleared = FALSE
    /\ poll = [clearedBefore |-> FALSE, start |-> 0, read |-> <<>>]

HistoryInit == \E bytes \in {<<>>, OldLine} : HistoryStart(bytes)

\* tail.py:273-277, 282-287: the first sight of the path.
FirstSight ==
    /\ history_offset = Unseen
    /\ history_offset' = Len(history)
    /\ firstSize' = Len(history)
    /\ UNCHANGED <<history, commands, hline, hpos, cleared, poll>>
    /\ UNCHANGED otherThanHistory

\* A shell appends the next n bytes of its entry to the file.
ShellAppend ==
    /\ hline <= MaxCommands
    /\ \E entry \in Entries(hline) : \E n \in 1..(Len(entry) - hpos) :
        /\ history' = history \o SubSeq(entry, hpos + 1, hpos + n)
        /\ hpos' = IF hpos + n = Len(entry) THEN 0 ELSE hpos + n
        /\ hline' = IF hpos + n = Len(entry) THEN hline + 1 ELSE hline
    /\ UNCHANGED <<history_offset, commands, firstSize, cleared, poll>>
    /\ UNCHANGED otherThanHistory

\* The history is cleared (history -c; history -w, or "> file").
HistoryClear ==
    /\ history_offset # Unseen
    /\ ~cleared
    /\ history # <<>>
    /\ hpos = 0
    /\ history' = <<>>
    /\ cleared' = TRUE
    /\ UNCHANGED <<history_offset, commands, hline, hpos, firstSize, poll>>
    /\ UNCHANGED otherThanHistory

\* tail.py:289-330: one turn of the polling loop on a path seen before.
Poll ==
    /\ history_offset # Unseen
    /\ LET size == Len(history)
       IN  IF size <= history_offset
              THEN \* 291-295
                   /\ history_offset' = IF size < history_offset THEN 0
                                         ELSE history_offset
                   /\ commands' = commands
                   /\ poll' = [clearedBefore |-> cleared,
                               start |-> history_offset', read |-> <<>>]
              ELSE \* 297-330
                   LET new_data == ReadLines(history, history_offset)
                   IN  /\ history_offset' = Len(history)
                       /\ commands' = commands \o HistoryCommands(new_data)
                       /\ poll' = [clearedBefore |-> cleared,
                                   start |-> history_offset,
                                   read |-> HistoryCommands(new_data)]
    /\ UNCHANGED <<history, hline, hpos, firstSize, cleared>>
    /\ UNCHANGED otherThanHistory

HistoryNext ==
    \/ FirstSight
    \/ ShellAppend
    \/ HistoryClear
    \/ Poll

(***************************************************************************)
(* The threads of the tailer that hold the detector: the observer's thread *)
(* that dispatches on_modified (tail.py:390-396, 211) and the thread of    *)
(* the shell-history watcher (tail.py:398-402, 309).  A call is entered    *)
(* and left in separate steps, so the other thread may run inside it.      *)
(***************************************************************************)
Threads == {"observer", "shell-history-watcher"}

\* detector.py:84-145 SHELL_HISTORY_PATTERNS, as the text a rule finds.
ShellPatternRules == <<[cue |-> "sudo su", threat_type |-> "Root Escalation"],
                       [cue |-> "nmap", threat_type |-> "Port Scan Tool"]>>
ShellCommands == {{"sudo su"}, {"nmap", "sudo su"}, {"ls"}}

\* The detector's sliding windows and cooldown maps.
DetectorState ==
    [brute |-> brute, scan |-> scan, flood |-> flood, errors |-> errors,
     alerted |-> alerted]

\* detector.py:349-369 analyze_shell_command on the detector state d: the
\* state it leaves and the threat type it returns ("none" for None).
analyze_shell_command_counting(d, words, shell_file, t) ==
    [state |-> [d EXCEPT !.flood[shell_file] = Add(@, t, FLOOD_WINDOW)],
     threat |-> FirstMatch(ShellPatternRules, words)]
analyze_shell_command(d, words, shell_file, t) ==
    [state |-> d, threat |-> FirstMatch(ShellPatternRules, words)]

ThreadsInit ==
    /\ tpc = [th \in Threads |-> "idle"]
    /\ arg = [th \in Threads |-> <<>>]
    /\ calls = [th \in Threads |-> 0]
    /\ mutators = {}
    /\ shell_threat = "none"

\* tail.py:198-211: the observer's thread, in _process_lines, calls analyze.
ObserverCall ==
    /\ tpc["observer"] = "idle"
    /\ calls["observer"] < MaxThreadCalls
    /\ \E c \in OrderLines :
        /\ arg' = [arg EXCEPT !["observer"] = c]
        /\ tpc' = [tpc EXCEPT !["observer"] = "analyze"]
    /\ UNCHANGED <<calls, mutators, shell_threat>>
    /\ UNCHANGED <<detVars, burstVars>>
    /\ UNCHANGED otherThanThreads

\* detector.py:263-347: analyze runs and returns.
ObserverReturn ==
    /\ tpc["observer"] = "analyze"
    /\ \E source \in Sources : AnalyzeLine(Thresholds, arg["observer"], source)
    /\ fed' = fed + 1
    /\ now' = now
    /\ mutators' = IF DetectorState' # DetectorState
                       THEN mutators \cup {"observer"} ELSE mutators
    /\ tpc' = [tpc EXCEPT !["observer"] = "idle"]
    /\ calls' = [calls EXCEPT !["observer"] = @ + 1]
    /\ UNCHANGED <<arg, shell_threat>>
    /\ UNCHANGED otherThanThreads

\* tail.py:303-311: the watcher's thread calls analyze_shell_command.
ShellCall ==
    /\ tpc["shell-history-watcher"] = "idle"
    /\ calls["shell-history-watcher"] < MaxThreadCalls
    /\ \E cmd \in ShellCommands :
        /\ arg' = [arg EXCEPT !["shell-history-watcher"] = cmd]
        /\ tpc' = [tpc EXCEPT !["shell-history-watcher"] = "analyze_shell_command"]
    /\ UNCHANGED <<calls, mutators, shell_threat>>
    /\ UNCHANGED <<detVars, burstVars>>
    /\ UNCHANGED otherThanThreads

\* detector.py:349-369: analyze_shell_command runs and returns.
ShellReturn ==
    /\ tpc["shell-history-watcher"] = "analyze_shell_command"
    /\ LET r == analyze_shell_command(DetectorState, arg["shell-history-watcher"],
                                      CHOOSE s \in Sources : TRUE, now)
       IN  /\ brute' = r.state.brute
           /\ scan' = r.state.scan
           /\ flood' = r.state.flood
           /\ errors' = r.state.errors
           /\ alerted' = r.state.alerted
           /\ shell_threat' = r.threat
           /\ mutators' = IF r.state # DetectorState
                              THEN mutators \cup {"shell-history-watcher"}
                              ELSE mutators
    /\ tpc' = [tpc EXCEPT !["shell-history-watcher"] = "idle"]
    /\ calls' = [calls EXCEPT !["shell-history-watcher"] = @ + 1]
    /\ UNCHANGED <<now, event, emitted, arg>>
    /\ UNCHANGED burstVars
    /\ UNCHANGED otherThanThreads

ThreadsNext ==
    \/ ObserverCall
    \/ ObserverReturn
    \/ ShellCall
    \/ ShellReturn

(***************************************************************************)
(* Two uploaders on one store: the background worker that auto mode starts *)
(* (main.py:424-445) and a foreground `logify online` (main.py:353-401),   *)
(* each running sync.py sync_logs on the same server.db.                   *)
(***************************************************************************)
Resting == [pc |-> "sleeping", unsynced_logs |-> <<>>, i |-> 0, synced_ids |-> <<>>]

PairInit ==
    /\ shared = <<>>
    /\ cycle = [u \in Tasks |-> Resting]
    /\ received = [id \in 1..MaxShared |-> 0]

\* db.py:72-108 insert_log by the tailer.
PairInsert ==
    /\ Len(shared) < MaxShared
    /\ shared' = Append(shared, NewRecord(Len(shared) + 1))
    /\ UNCHANGED <<cycle, received>>
    /\ UNCHANGED otherThanPair

\* sync.py:32-48: the SELECT of the unsynced rows.
PairBegin(u) ==
    /\ cycle[u].pc = "sleeping"
    /\ Unsynced(shared) # {}
    /\ \E fetched \in QueryUnsynced(shared) :
        cycle' = [cycle EXCEPT ![u] = [pc |-> "posting", unsynced_logs |-> fetched,
                                       i |-> 0, synced_ids |-> <<>>]]
    /\ UNCHANGED <<shared, received>>
    /\ UNCHANGED otherThanPair

\* sync.py:69-116: one turn of the batch loop.
PairPost(u) ==
    /\ cycle[u].pc = "posting"
    /\ \E answer \in Answers :
        LET c == cycle[u]
            batch == Batch(c.unsynced_logs, c.i)
            accepted == answer \in SuccessStatus
        IN  /\ accepted => \A id \in SeqToSet(batch) : received[id] < MaxAccepts
            /\ received' = [id \in DOMAIN received |->
                                IF accepted /\ id \in SeqToSet(batch)
                                   THEN received[id] + 1 ELSE received[id]]
            /\ cycle' = [cycle EXCEPT ![u] =
                    [c EXCEPT !.synced_ids = IF accepted THEN @ \o batch ELSE @,
                              !.i = IF accepted THEN @ + batch_size ELSE @,
                              !.pc = IF accepted /\ c.i + batch_size < Len(c.unsynced_logs)
                                        THEN "posting" ELSE "marking"]]
    /\ UNCHANGED shared
    /\ UNCHANGED otherThanPair

\* sync.py:118-138: the ids collected are marked and the call returns.
PairFinish(u) ==
    /\ cycle[u].pc = "marking"
    /\ shared' = MarkSynced(shared, cycle[u].synced_ids, 0)
    /\ cycle' = [cycle EXCEPT ![u] = Resting]
    /\ UNCHANGED received
    /\ UNCHANGED otherThanPair

\* The call ends before its UPDATE is committed: the process is stopped
\* (`logify stop`, SIGKILL), or the UPDATE raises "database is locked" while
\* the tailer writes (sync.py:122-129 has no handler).
PairAbort(u) ==
    /\ cycle[u].pc \in {"posting", "marking"}
    /\ cycle' = [cycle EXCEPT ![u] = Resting]
    /\ UNCHANGED <<shared, received>>
    /\ UNCHANGED otherThanPair

PairNext ==
    \/ PairInsert
    \/ \E u \in Tasks : PairBegin(u)
    \/ \E u \in Tasks : PairPost(u)
    \/ \E u \in Tasks : PairFinish(u)
    \/ \E u \in Tasks : PairAbort(u)

(***************************************************************************)
(* Specifications: one per part, the other parts at rest.                  *)
(***************************************************************************)
SyncIdle == SyncStart(TRUE, TRUE)
TailIdle == TailStart(<<>>)
ProducersIdle == ProducersStart({})
WatchIdle ==
    WatchStart([is_root |-> FALSE, soft_fd |-> 1024, hard_fd |-> 1024,
                max_instances |-> 128, max_watches |-> 8192,
                sysctl_fails |-> FALSE],
               <<>>)
PermIdle == access = <<>> /\ failed_perm_paths = {} /\ grantedAt = <<>>
ConfigIdle == ConfigStart(NoFile)
LevelIdle == levelled = <<>>
UploaderIdle == task = "online_background_worker"
EscalationIdle == reexecs = <<>>
HistoryIdle == HistoryStart(<<>>)
ThreadsIdle == ThreadsInit
PairIdle == PairInit
LaterIdle == PermIdle /\ ConfigIdle /\ LevelIdle /\ UploaderIdle /\ EscalationIdle /\ HistoryIdle /\ ThreadsIdle /\ PairIdle

Init == SyncInit /\ DetectorInit /\ TailIdle /\ ProducersIdle /\ BurstInit /\ WatchIdle /\ LaterIdle

SpecSync == Init /\ [][SyncNext]_vars

\* The background worker loops for ever (main.py:414-421: an exception in a
\* cycle is caught and the loop sleeps and goes on), so each step of the
\* uploader that is possible is eventually taken.  Nothing is assumed of the
\* producers, the clock or the aggregator.
SpecSyncFair ==
    /\ Init
    /\ [][SyncNext]_vars
    /\ WF_vars(WorkerWake)
    /\ WF_vars(SyncBegin)
    /\ WF_vars(SyncPost)
    /\ WF_vars(SyncFinish)

InitDetector == SyncIdle /\ DetectorInit /\ TailIdle /\ ProducersIdle /\ BurstInit /\ WatchIdle /\ LaterIdle

SpecDetector == InitDetector /\ [][DetectorNext]_vars

InitTail == SyncIdle /\ DetectorInit /\ TailInit /\ ProducersIdle /\ BurstInit /\ WatchIdle /\ LaterIdle

SpecTail == InitTail /\ [][TailNext]_vars

InitProducers == SyncIdle /\ DetectorInit /\ TailIdle /\ ProducersInit /\ BurstInit /\ WatchIdle /\ LaterIdle

SpecProducers == InitProducers /\ [][ProducersNext]_vars

InitBurst == SyncIdle /\ DetectorInit /\ TailIdle /\ ProducersIdle /\ BurstInit /\ WatchIdle /\ LaterIdle

SpecBurst == InitBurst /\ [][BurstNext]_vars

SpecOrder == InitBurst /\ [][OrderNext]_vars

SpecWindow == InitBurst /\ [][WindowNext]_vars

InitWatch ==
    SyncIdle /\ DetectorInit /\ TailIdle /\ ProducersIdle /\ BurstInit /\ WatchInit
    /\ LaterIdle

SpecWatch == InitWatch /\ [][WatchNext]_vars

\* watch_many runs on to its loop, which iterates until the user quits, and
\* the observer's thread hands every queued event to the handler.  Nothing is
\* assumed of the writer or of the kernel's notifications.
SpecWatchFair ==
    /\ InitWatch
    /\ [][WatchNext]_vars
    /\ WF_vars(WatchGuard)
    /\ WF_vars(WatchSchedule)
    /\ WF_vars(WatchObserve)
    /\ WF_vars(WatchLoop)
    /\ WF_vars(Dispatch)

InitPerm ==
    SyncIdle /\ DetectorInit /\ TailIdle /\ ProducersIdle /\ BurstInit /\ PermInit
    /\ ConfigIdle
    /\ LevelIdle
    /\ UploaderIdle
    /\ EscalationIdle
    /\ HistoryIdle
    /\ ThreadsIdle
    /\ PairIdle

SpecPerm == InitPerm /\ [][PermNext]_vars

InitConfig ==
    SyncIdle /\ DetectorInit /\ TailIdle /\ ProducersIdle /\ BurstInit /\ WatchIdle
    /\ PermIdle /\ ConfigInit
    /\ LevelIdle
    /\ UploaderIdle
    /\ EscalationIdle
    /\ HistoryIdle
    /\ ThreadsIdle
    /\ PairIdle

SpecConfig == InitConfig /\ [][ConfigNext]_vars

InitLevel ==
    SyncIdle /\ DetectorInit /\ TailIdle /\ ProducersIdle /\ BurstInit /\ WatchIdle
    /\ PermIdle /\ ConfigIdle
    /\ LevelInit
    /\ UploaderIdle
    /\ EscalationIdle
    /\ HistoryIdle
    /\ ThreadsIdle
    /\ PairIdle

SpecLevel == InitLevel /\ [][LevelNext]_vars

InitUploader ==
    SyncInit /\ DetectorInit /\ TailIdle /\ ProducersIdle /\ BurstInit /\ WatchIdle
    /\ PermIdle /\ ConfigIdle /\ LevelIdle
    /\ UploaderInit
    /\ EscalationIdle
    /\ HistoryIdle
    /\ ThreadsIdle
    /\ PairIdle

SpecUploader == InitUploader /\ [][UploaderNext]_vars

InitEscalation ==
    SyncIdle /\ DetectorInit /\ TailIdle /\ ProducersIdle /\ BurstInit
    /\ ConfigIdle /\ LevelIdle /\ UploaderIdle
    /\ EscalationInit
    /\ HistoryIdle
    /\ ThreadsIdle
    /\ PairIdle

SpecEscalation == InitEscalation /\ [][EscalationNext]_vars

InitHistory ==
    SyncIdle /\ DetectorInit /\ TailIdle /\ ProducersIdle /\ BurstInit /\ WatchIdle
    /\ PermIdle /\ ConfigIdle /\ LevelIdle /\ UploaderIdle /\ EscalationIdle
    /\ HistoryInit
    /\ ThreadsIdle
    /\ PairIdle

SpecHistory == InitHistory /\ [][HistoryNext]_vars

InitThreads ==
    SyncIdle /\ DetectorInit /\ TailIdle /\ ProducersIdle /\ BurstInit /\ WatchIdle
    /\ PermIdle /\ ConfigIdle /\ LevelIdle /\ UploaderIdle /\ EscalationIdle /\ HistoryIdle
    /\ ThreadsInit
    /\ PairIdle

SpecThreads == InitThreads /\ [][ThreadsNext]_vars

InitPair ==
    SyncIdle /\ DetectorInit /\ TailIdle /\ ProducersIdle /\ BurstInit /\ WatchIdle
    /\ PermIdle /\ ConfigIdle /\ LevelIdle /\ UploaderIdle /\ EscalationIdle /\ HistoryIdle /\ ThreadsIdle
    /\ PairInit

SpecPair == InitPair /\ [][PairNext]_vars

(***************************************************************************)
(* Properties of the store and the uploader.                               *)
(***************************************************************************)
RECURSIVE Concat(_)
Concat(batches) ==
    IF batches = <<>> THEN <<>> ELSE Head(batches).ids \o Concat(Tail(batches))

\* A cycle has ended and the history variables describe it.
CycleEnded == pc = "sleeping" /\ outcome # "none"

Accepted == {k \in 1..Len(posted) : posted[k].status \in {200, 201, 204}}
Rejected == {k \in 1..Len(posted) : posted[k].status \notin {200, 201, 204}}

\* Ids POSTed by the cycle in a batch that received 200, 201 or 204.
PostedOk == UNION {SeqToSet(posted[k].ids) : k \in Accepted}

\* Ids whose synced flag went from false to true since the cycle began.
Flipped == {id \in 1..Len(startLogs) : ~startLogs[id].synced /\ logs[id].synced}

C3_Step ==
    /\ Len(logs') >= Len(logs)
    /\ \A id \in 1..Len(logs') : id > Len(logs) => ~logs'[id].synced
    /\ \A id \in 1..Len(logs) : logs[id].synced => logs'[id].synced
    /\ \A id \in 1..Len(logs) :
          (~logs[id].synced /\ logs'[id].synced) => id \in PostedOk

C3_SyncedLifecycle == [][C3_Step]_vars

\* A record was marked synced while another, inserted after the cycle's
\* query, still waits.
C3_Witness ==
    /\ CycleEnded
    /\ \E id \in 1..Len(logs) : logs[id].synced
    /\ Len(logs) > Len(startLogs)
    /\ ~logs[Len(logs)].synced

\* C4: on an authenticated agent with unsynced records, a cycle run while the
\* aggregator answers non-success flips no synced flag and does not write
\* last_sync; the next cycle, run while the aggregator answers success, POSTs
\* those same records, marks all of them synced and writes last_sync.
C4_RetryAfterRejection ==
    (CycleEnded /\ cfgAuth) =>
        /\ allBad => (Flipped = {} /\ ~wrote)
        /\ (allOk /\ prevBad # {}) =>
              /\ prevBad \subseteq PostedOk
              /\ \A id \in prevBad : logs[id].synced
              /\ wrote

\* C4 on a store whose table has the columns the uploader's query names.
C4_OnMigratedStore == netCols => C4_RetryAfterRejection

C4_OnMigratedStoreWitness ==
    /\ CycleEnded /\ cfgAuth /\ netCols
    /\ allOk
    /\ Cardinality(prevBad) = MaxRecords
    /\ wrote

\* C5: after a cycle of an authenticated agent in which every batch was
\* accepted and during which no record was inserted, no record is unsynced.
C5_FullCycleLeavesNothingUnsynced ==
    (/\ CycleEnded
     /\ cfgAuth
     /\ Rejected = {}
     /\ Len(logs) = Len(startLogs)) => Unsynced(logs) = {}

\* C5 on a store whose table has the columns the uploader's query names.
C5_OnMigratedStore == netCols => C5_FullCycleLeavesNothingUnsynced

C5_OnMigratedStoreWitness ==
    /\ CycleEnded /\ cfgAuth /\ netCols
    /\ Len(posted) > 1
    /\ Rejected = {}
    /\ Len(logs) = Len(startLogs)

\* The ids the cycle POSTed, in the order it sent them.
Sent == Concat(posted)

NoDuplicates(s) == \A a, b \in 1..Len(s) : a # b => s[a] # s[b]

IsPrefix(s, t) == Len(s) <= Len(t) /\ s = SubSeq(t, 1, Len(s))

\* C6 as claimed: a cycle POSTs the records in the order they were inserted
\* (ascending id), none twice, none of the fetched records left out when every
\* batch is accepted, no batch above the batch size.
C6_InsertionOrder ==
    /\ \A a, b \in 1..Len(Sent) : a < b => Sent[a] < Sent[b]
    /\ \A k \in 1..Len(posted) : Len(posted[k].ids) <= batch_size
    /\ (CycleEnded /\ outcome = "done" /\ Rejected = {}) =>
           SeqToSet(Sent) = Unsynced(startLogs)

\* C6 as amended: a cycle POSTs the records that were unsynced at its query in
\* non-decreasing timestamp order: the batches sent, concatenated, are a
\* prefix without repetition of that list, ending with the first rejected
\* batch, and the whole list when every batch is accepted; no batch is above
\* the batch size.
C6_TimestampOrder ==
    /\ IsTimestampOrder(logs, Sent)
    /\ NoDuplicates(Sent)
    /\ SeqToSet(Sent) \subseteq Unsynced(startLogs)
    /\ \A k \in 1..Len(posted) :
          /\ Len(posted[k].ids) <= batch_size
          /\ k \in Rejected => k = Len(posted)
          /\ k < Len(posted) => Len(posted[k].ids) = batch_size
    /\ \A id \in Unsynced(startLogs) \ SeqToSet(Sent) :
          \/ pc = "posting"
          \/ Rejected # {}
          \/ outcome \in {"none", "not_authenticated", "raised"}
    /\ \A id \in Unsynced(startLogs) \ SeqToSet(Sent) :
          \A a \in 1..Len(Sent) : logs[Sent[a]].timestamp <= logs[id].timestamp

\* A cycle sent two batches, all accepted, of records whose insertion order
\* is not their timestamp order.
C6_Witness ==
    /\ CycleEnded
    /\ Len(posted) > 1
    /\ Rejected = {}
    /\ \E a, b \in 1..Len(Sent) : a < b /\ Sent[a] > Sent[b]

\* C7: on an authenticated agent whose uploader keeps running, if from some
\* point on the aggregator accepts every POST then every record that is
\* inserted is eventually synced.
C7_EventuallySynced ==
    (cfgAuth /\ <>[](aggregator = "up")) =>
        \A id \in 1..MaxRecords :
            (Len(logs) >= id) ~> (Len(logs) >= id /\ logs[id].synced)

\* C7 on a store whose table has the columns the uploader's query names.
C7_OnMigratedStore == netCols => C7_EventuallySynced

(***************************************************************************)
(* Properties of the threat detector.                                      *)
(***************************************************************************)
\* C1: for every alert key (brute force and port scan per source IP, flood
\* per source, the global error spike), two consecutive emissions of the key's
\* alert are at least ALERT_COOLDOWN seconds of wall clock apart, whatever the
\* sequence of analyze calls.
C1_AlertCooldown ==
    \A k \in AlertKeys :
        Len(emitted[k]) = 2 => emitted[k][2] - emitted[k][1] >= ALERT_COOLDOWN

\* Every kind of alert has been emitted twice.
C1_Witness ==
    /\ \A k \in {<<"brute", "10.0.0.1">>, <<"scan", "10.0.0.1">>,
                  <<"flood", "/var/log/auth.log">>, <<"error", "_global_">>} :
            Len(emitted[k]) = 2
    /\ event \in RateKinds

(***************************************************************************)
(* Properties of the file tracker.                                         *)
(***************************************************************************)
\* The newline-terminated lines of a sequence of bytes, without the newline.
RECURSIVE CompleteLines(_, _)
CompleteLines(bytes, cur) ==
    IF bytes = <<>> THEN <<>>
    ELSE IF Head(bytes) = NL
        THEN <<cur>> \o CompleteLines(Tail(bytes), <<>>)
        ELSE CompleteLines(Tail(bytes), Append(cur, Head(bytes)))

Appended == SubSeq(content, startOffset + 1, Len(content))

\* C8: on a path that is only appended to (no rotation, no truncation), the
\* lines delivered are the newline-terminated lines appended since tracking
\* began, each once and in file order, however the writer splits its writes:
\* at any time a prefix of them, and all of them once every event is handled.
C8_AppendOnlyDelivery ==
    (made = 1 /\ ino = 1 /\ ~truncated) =>
        /\ IsPrefix(delivered[1], CompleteLines(Appended, <<>>))
        /\ (events = <<>> /\ wpos = 0) =>
                delivered[1] = CompleteLines(Appended, <<>>)

\* C9: after a rotation, the lines delivered from the new file are its lines,
\* each once and in order, without duplicates, whatever the interleaving of
\* the created and modified callbacks with the writer; here for a new file
\* written in whole lines and never truncated.
C9_RotationDelivery ==
    (made > 1 /\ ino # Absent /\ ~truncated /\ ~pieces) =>
        /\ IsPrefix(delivered[ino], CompleteLines(content, <<>>))
        /\ events = <<>> => delivered[ino] = CompleteLines(content, <<>>)

FromTheBeginning ==
    /\ wake.start = 0
    /\ wake.read = Processed(ReadLines(wake.content, 0))

\* C10 as claimed: when the file was truncated since the last wake-up, the
\* tracker reads it from offset 0 and delivers what it holds, whatever amount
\* was written since the truncation.
C10_TruncationAnyAmount == wake.afterTruncation => FromTheBeginning

\* C10 as the code has it: when the file was truncated since the last
\* wake-up and its size at this wake-up is below the remembered offset, the
\* tracker resets its offset to 0, reads the file from the beginning and
\* delivers what it holds.
C10_TruncationBelowOffset ==
    (wake.afterTruncation /\ wake.below) => FromTheBeginning

C10_Witness ==
    /\ wake.afterTruncation
    /\ wake.below
    /\ wake.read # <<>>
    /\ tracker.offset = Len(wake.content)

(***************************************************************************)
(* Properties of the producers and the store.                              *)
(***************************************************************************)
\* The lines a producer went through and the rows it has in the store.
HandledBy(who) == SelectSeq(handled, LAMBDA h : h.by = who)
RowsBy(who) == SelectSeq(rows, LAMBDA r : r.by = who)
Times(s, source, message) ==
    Cardinality({k \in 1..Len(s) : s[k].source = source /\ s[k].message = message})

\* C11: every non-empty trimmed line the tailer reads is persisted as exactly
\* one record of the store, whether or not the detector raised a threat on it.
C11_TailedLinePersistedOnce ==
    \A p \in LogPaths, line \in LogLines :
        Times(RowsBy("tailer"), p, line) = Times(HandledBy("tailer"), p, line)

\* The domains of a record's category and privacy level (db.py:83-85,
\* scan.py:187-189).
Categories == {"System", "Security", "Administrator", "User Activity"}
PrivacyLevels == {"public", "internal", "sensitive"}

\* C12: every record a producer (the tailer, the shell-history watcher, the
\* one-shot ingest) passes to the store has its category among System,
\* Security, Administrator, User Activity and its privacy level among public,
\* internal, sensitive.
C12_CategoryAndPrivacyInDomain ==
    /\ handled # <<>> =>
            /\ CategoryOf(lastCall.call) \in Categories
            /\ lastCall.call.privacy_level \in PrivacyLevels
    /\ \A k \in 1..Len(rows) :
            /\ rows[k].log_category \in Categories
            /\ rows[k].privacy_level \in PrivacyLevels

\* C16: for every shell-history line that matches a credential-exposure
\* pattern, the message persisted is "[FILTERED: Contains sensitive data]" and
\* never the command itself.
C16_SensitiveCommandFiltered ==
    LET typed == HandledBy("watcher")
        kept == RowsBy("watcher")
    IN  /\ \A k \in 1..Len(kept) : ~should_filter_line(kept[k].message)
        /\ (handled # <<>> /\ lastCall.call.by = "watcher"
                /\ lastCall.outcome = "stored"
                /\ should_filter_line(typed[Len(typed)].message))
            => kept[Len(kept)].message = sanitize_command(typed[Len(typed)].message)

\* The columns the pipeline reads or writes (db.py:98-99, sync.py:35-41,
\* tail.py:221-222).
PipelineColumns ==
    InsertColumns \cup SelectColumns \cup {"source_ip", "dest_ip", "event_id"}

\* C17: once the store has been opened, every column the pipeline reads or
\* writes exists (synced, server_id, the category, subcategory and privacy
\* columns, source_ip, dest_ip, event_id are added when missing), so the
\* tailer's insert and the uploader's query of unsynced rows succeed on a
\* store this program created or migrated.
C17_OpenedStoreHasEveryColumn ==
    opened =>
        /\ PipelineColumns \subseteq columns
        /\ SelectColumns \subseteq columns
        /\ (handled # <<>> /\ lastCall.call.by = "tailer")
                => lastCall.outcome = "stored"

(***************************************************************************)
(* Properties of a burst fed to a fresh detector.                          *)
(***************************************************************************)
\* C13: no call of analyze returns a threat of type Auth Failure: a message
\* whose pattern match is the Auth Failure rule produces no pattern event and
\* only feeds the brute-force window of its source IP.
C13_AuthFailureNeverAnEvent ==
    /\ event # "Auth Failure"
    /\ (fed > 0 /\ FirstMatch(PatternRules, lastLine.words) = "Auth Failure") =>
            /\ event \in RateKinds \cup {"none"}
            /\ lastLine.source_ip # NoIp =>
                    LET w == brute[lastLine.source_ip]
                    IN  w # <<>> /\ w[Len(w)] = lastLine.t

\* A message matched by the Auth Failure rule alone came from a source IP and
\* no event was returned.
C13_Witness ==
    /\ fed > 0
    /\ FirstMatch(PatternRules, lastLine.words) = "Auth Failure"
    /\ lastLine.source_ip # NoIp
    /\ event = "none"
    /\ brute[lastLine.source_ip] # <<>>

\* The clock readings of times that lie in the window ending at t.
Within(times, t, window) ==
    Cardinality({j \in 1..Len(times) : times[j] >= t - window})
\* The distinct ports seen in the window ending at t.
DistinctPorts(seen, t, window) ==
    Cardinality({seen[j].v : j \in {n \in 1..Len(seen) : seen[n].t >= t - window}})
\* The clock reading of the key's last alert before the last call, 0 if none.
PriorAlert(kind, key) ==
    LET em == emitted[<<kind, key>>]
    IN  IF event = kind
            THEN (IF Len(em) = 2 THEN em[1] ELSE 0)
            ELSE (IF em = <<>> THEN 0 ELSE em[Len(em)])

\* C14: a fresh detector is fed auth-failure lines of one source IP.  The
\* lines before the threshold-th (the 5th in the code) produce no threat; the
\* line that brings the failures within the 60 s window up to the threshold
\* produces one Brute Force event; and for the 300 s after a Brute Force
\* event no other is produced for the IP, however many failures arrive.
C14_BruteForceBurst ==
    (fed > 0 /\ IsFailureLine(lastLine)) =>
        LET ip == lastLine.source_ip
            t == lastLine.t
            n == Within(fails, t, BRUTE_FORCE_WINDOW)
            prior == PriorAlert("brute", ip)
        IN  /\ (fed = Len(fails) /\ Len(fails) < BurstThresholds.brute)
                    => event = "none"
            /\ n < BurstThresholds.brute => event # "brute"
            /\ (n >= BurstThresholds.brute /\ t - prior >= ALERT_COOLDOWN)
                    => /\ event = "brute"
                       /\ emitted[<<"brute", ip>>][Len(emitted[<<"brute", ip>>])] = t
            /\ (prior # 0 /\ t - prior < ALERT_COOLDOWN) => event # "brute"

\* Only failures of the IP were fed, all within one window; one of them
\* produced the Brute Force event and a later one, past the threshold, did not.
C14_Witness ==
    /\ fed > 0
    /\ fed = Len(fails)
    /\ IsFailureLine(lastLine)
    /\ Len(fails) > BurstThresholds.brute
    /\ Within(fails, lastLine.t, BRUTE_FORCE_WINDOW) = Len(fails)
    /\ Len(emitted[<<"brute", lastLine.source_ip>>]) = 1
    /\ event = "none"

\* C15: a fresh detector is fed lines of one source IP that carry destination
\* ports.  A Port Scan event is produced when the number of distinct ports
\* within the 30 s window reaches the threshold (15 in the code), a port seen
\* again not counting twice, and not before; repeating the same ports produces
\* no other Port Scan event for the IP within the cooldown.
C15_PortScanBurst ==
    (fed > 0 /\ IsPortLine(lastLine)) =>
        LET ip == lastLine.source_ip
            t == lastLine.t
            n == DistinctPorts(ports, t, PORT_SCAN_WINDOW)
            prior == PriorAlert("scan", ip)
        IN  /\ n < BurstThresholds.scan => event # "scan"
            /\ (n >= BurstThresholds.scan /\ t - prior >= ALERT_COOLDOWN)
                    => /\ event = "scan"
                       /\ emitted[<<"scan", ip>>][Len(emitted[<<"scan", ip>>])] = t
            /\ (prior # 0 /\ t - prior < ALERT_COOLDOWN) => event # "scan"

\* Only port lines of the IP were fed, within one window; a port was repeated
\* before the threshold was reached, the line that reached it produced the
\* Port Scan event, and a repeated port after it did not.
C15_Witness ==
    /\ fed > 0
    /\ fed = Len(ports)
    /\ IsPortLine(lastLine)
    /\ Len(ports) > BurstThresholds.scan + 1
    /\ ports[1].v = ports[2].v
    /\ DistinctPorts(ports, lastLine.t, PORT_SCAN_WINDOW) = BurstThresholds.scan
    /\ \A j \in 1..Len(ports) : ports[j].t >= lastLine.t - PORT_SCAN_WINDOW
    /\ Len(emitted[<<"scan", lastLine.source_ip>>]) = 1
    /\ event = "none"

(***************************************************************************)
(* Properties of an invocation of the tailer.                              *)
(***************************************************************************)
\* C18: a line appended to a tracked file is eventually delivered to the
\* enricher even if the filesystem notification never fires for the file:
\* idle polling is the floor that guarantees delivery.  (The handle has passed
\* line n exactly when line n went to _process_lines or was in the file when
\* tracking began.)
C18_AppendedLineEventuallyDelivered ==
    \A p \in LogPaths, n \in 1..MaxAppends :
        (p \in tracked /\ written[p] >= n) ~> (p \in tracked /\ offset[p] >= n)

\* How often p occurs in the list s.
TimesIn(s, p) == Cardinality({j \in 1..Len(s) : s[j] = p})

\* C19: the priority scheduler partitions the list of paths it is given:
\* every path of the input is in exactly one of the tiers 0..3 and the tiers
\* together hold the input, so no file is dropped.
C19_TiersPartitionInput ==
    wpc \in {"track", "loop"} =>
        /\ DOMAIN levels = 0..3
        /\ \A p \in LogPaths :
            /\ TimesIn(filepaths, p) > 0 =>
                    Cardinality({k \in 0..3 : TimesIn(levels[k], p) > 0}) = 1
            /\ TimesIn(levels[0], p) + TimesIn(levels[1], p)
                    + TimesIn(levels[2], p) + TimesIn(levels[3], p)
                        = TimesIn(filepaths, p)

\* Two paths were given and went to the lowest and to another tier.
C19_Witness ==
    /\ wpc = "loop"
    /\ Len(filepaths) = 2
    /\ levels[3] # <<>>
    /\ levels[0] # <<>>

\* The limits are short of what file_count files need and the process has no
\* privilege to raise them.
CannotAdjust(h, file_count) ==
    /\ ~h.is_root
    /\ \/ h.soft_fd < needed_fds(file_count) /\ h.hard_fd < needed_fds(file_count)
       \/ h.max_instances < needed_instances(file_count)
       \/ h.max_watches < needed_watches(file_count)

\* C20: when the resource guard finds the limits insufficient and cannot
\* adjust them (not privileged), the invocation ends before any tailing: no
\* file is opened for tracking, no observer is started, no line is delivered.
C20_GuardStopsTheTailer ==
    (wpc # "guard" /\ CannotAdjust(limits, Len(filepaths))) =>
        /\ wpc = "returned"
        /\ tracked = {}
        /\ ~observing
        /\ pending = {}
        /\ \A p \in DOMAIN handed : handed[p] = 0

\* The guard read the sysctls, found the inotify watches short without being
\* root, and watch_many returned; a line was appended since.
C20_Witness ==
    /\ wpc = "returned"
    /\ ~limits.sysctl_fails
    /\ ~limits.is_root
    /\ limits.soft_fd >= needed_fds(Len(filepaths))
    /\ limits.max_watches < needed_watches(Len(filepaths))
    /\ \E p \in SeqToSet(filepaths) : written[p] > 0

(***************************************************************************)
(* Properties of the handler under permission changes.                     *)
(***************************************************************************)
\* C21: a path whose open was denied for lack of permission stays with the
\* handler: once the path is readable again and every queued event has been
\* handled, the lines appended since it became readable have been delivered.
C21_DeniedPathDeliversOnceReadable ==
    \A p \in failed_perm_paths :
        (access[p] = "readable" /\ p \notin pending) =>
            handed[p] >= written[p] - grantedAt[p]

(***************************************************************************)
(* Properties of the config file.                                          *)
(***************************************************************************)
\* C22: config updates are atomic: a reader running beside set_config /
\* update_config gets either the complete old or the complete new config (a
\* dict that was in the file before or that a completed update wrote), and
\* once no update is in progress the file holds the last value each updater
\* set, no update being lost.
C22_ConfigUpdatesAtomic ==
    /\ loaded \in committed
    /\ (\A u \in Updaters : upc[u] = "idle") =>
          /\ get_config(CONFIG_FILE).last_sync = updates["uploader"]
          /\ get_config(CONFIG_FILE).gemini_api_key = updates["cli"]

(***************************************************************************)
(* Properties of the level inference.                                      *)
(***************************************************************************)
\* The inference the specification describes: case-insensitive, first match
\* in the order critical, error or fail, warn, debug, else INFO.
ReferenceLevel(line) ==
    LET l_low == {Lower(word) : word \in line}
    IN  IF Has("critical", l_low) THEN "CRITICAL"
        ELSE IF Has("error", l_low) \/ Has("fail", l_low) THEN "ERROR"
        ELSE IF Has("warn", l_low) THEN "WARN"
        ELSE IF Has("debug", l_low) THEN "DEBUG"
        ELSE "INFO"

\* C23: the level the tailer assigns to a line equals the reference
\* inference: CRITICAL if the line contains 'critical', else ERROR if it
\* contains 'error' or 'fail', else WARN for 'warn', else DEBUG for 'debug',
\* else INFO, case-insensitively.
C23_LevelMatchesReference ==
    \A k \in 1..Len(levelled) : levelled[k].lvl = ReferenceLevel(levelled[k].line)

(***************************************************************************)
(* Properties of the order of the detector's rules.                        *)
(***************************************************************************)
\* The condition of a rate rule on the line c read at c.t, the line counted.
RuleMet(kind, c, source) ==
    IF kind = "brute"
        THEN /\ c.source_ip # NoIp
             /\ is_auth_fail(c.words)
             /\ Within(brute[c.source_ip], c.t, BRUTE_FORCE_WINDOW) + 1
                    >= Thresholds.brute
    ELSE IF kind = "scan"
        THEN /\ c.source_ip # NoIp
             /\ c.dport # NoPort
             /\ Cardinality({scan[c.source_ip][j].v :
                                j \in {n \in 1..Len(scan[c.source_ip]) :
                                    scan[c.source_ip][n].t >= c.t - PORT_SCAN_WINDOW}}
                            \cup {c.dport}) >= Thresholds.scan
    ELSE IF kind = "flood"
        THEN Within(flood[source], c.t, FLOOD_WINDOW) + 1 >= Thresholds.flood
    ELSE /\ c.level \in {"ERROR", "CRITICAL"}
         /\ Within(errors, c.t, ERROR_SPIKE_WINDOW) + 1 >= Thresholds.error

\* The key a rate rule alerts on.
RuleKey(kind, c, source) ==
    IF kind \in {"brute", "scan"} THEN c.source_ip
    ELSE IF kind = "flood" THEN source ELSE "_global_"

\* The cooldown gate of a rate rule is open at c.t.
GateOpen(kind, c, source) ==
    c.t - alerted[StoreOf(kind)][RuleKey(kind, c, source)] >= ALERT_COOLDOWN

RuleOrder == <<"brute", "scan", "flood", "error">>

\* The first rule, in the order pattern, brute force, port scan, source
\* flood, error spike, whose condition holds and whose gate is open.
RECURSIVE FirstRate(_, _, _)
FirstRate(kinds, c, source) ==
    IF kinds = <<>> THEN "none"
    ELSE IF RuleMet(Head(kinds), c, source) /\ GateOpen(Head(kinds), c, source)
        THEN Head(kinds)
    ELSE FirstRate(Tail(kinds), c, source)

FirstRule(c, source) ==
    IF check_patterns(c.words) # "none" THEN check_patterns(c.words)
    ELSE FirstRate(RuleOrder, c, source)

C24_Step ==
    fed' = fed + 1 => \E source \in Sources : event' = FirstRule(lastLine', source)

\* C24: a call of analyze returns at most one event, that of the first rule,
\* in the order pattern, brute force, port scan, source flood, error spike,
\* whose condition holds and whose cooldown gate is open; a rate rule whose
\* threshold is met while its gate is closed does not keep the later rules
\* from being evaluated.
C24_FirstRuleWins == [][C24_Step]_vars

\* A failed login naming its port came from an IP whose brute-force and
\* port-scan thresholds are met with both gates closed, and the call returned
\* the flood event.
C24_Witness ==
    /\ fed > 0
    /\ lastLine.source_ip # NoIp
    /\ is_auth_fail(lastLine.words)
    /\ lastLine.dport # NoPort
    /\ Len(brute[lastLine.source_ip]) >= Thresholds.brute
    /\ now - alerted["_alerted_brute"][lastLine.source_ip] < ALERT_COOLDOWN
    /\ Len(scan[lastLine.source_ip]) >= Thresholds.scan
    /\ now - alerted["_alerted_scan"][lastLine.source_ip] < ALERT_COOLDOWN
    /\ event = "flood"

(***************************************************************************)
(* Properties of the sliding windows.                                      *)
(***************************************************************************)
\* C25: after an add on a sliding window at time now the window holds
\* exactly the added events whose timestamp is at least now - window, so the
\* brute-force alert is emitted only when the failed logins within the window
\* are at least the threshold; also when the clock steps back by less than
\* the window and advances again (the clock is then at or past every
\* reading it gave before).
C25_WindowHoldsWhatIsInside ==
    (fed > 0 /\ lastLine.t = now /\ \A j \in 1..Len(fails) : fails[j] <= now) =>
        /\ brute[lastLine.source_ip] =
              SelectSeq(fails, LAMBDA t : t >= now - BRUTE_FORCE_WINDOW)
        /\ event = "brute" =>
              Within(fails, now, BRUTE_FORCE_WINDOW) >= WindowThresholds.brute

(***************************************************************************)
(* Properties of the resource guard.                                       *)
(***************************************************************************)
\* C26: whenever the resource guard returns success for N paths the limits it
\* leaves are sufficient: soft descriptor limit >= 2N + 100, inotify
\* instances >= N \div 10 + 1, inotify watches >= 2N.
C26_SuccessMeansSufficient ==
    wpc \in {"schedule", "track", "loop"} =>
        /\ limits.soft_fd >= 2 * Len(filepaths) + 100
        /\ limits.max_instances >= (Len(filepaths) \div 10) + 1
        /\ limits.max_watches >= 2 * Len(filepaths)

\* The guard raised the soft descriptor limit to what is needed and, as root,
\* the inotify limits, and the tailer went on.
C26_Witness ==
    /\ wpc = "loop"
    /\ limits.is_root
    /\ limits.soft_fd = 2 * Len(filepaths) + 100
    /\ limits.max_instances = 1024
    /\ limits.max_watches = 524288

C27_Step ==
    (wpc = "guard" /\ wpc' # "guard" /\ limits.is_root) =>
        /\ limits'.soft_fd >= limits.soft_fd
        /\ limits'.hard_fd >= limits.hard_fd
        /\ limits'.max_instances >= limits.max_instances
        /\ limits'.max_watches >= limits.max_watches

\* C27: when running privileged the guard only raises limits: after it
\* returns, neither inotify quota nor a descriptor limit is lower than it was
\* before the call.
C27_PrivilegedGuardOnlyRaises == [][C27_Step]_vars

(***************************************************************************)
(* Properties of a failed upload.                                          *)
(***************************************************************************)
\* C28: once a batch of a sync cycle gets a non-success status or a transport
\* error the cycle is aborted: that batch is the last one the cycle POSTs,
\* and no record of it or of a later batch of the cycle is marked synced.
C28_FailedBatchAbortsCycle ==
    Rejected # {} =>
        /\ Rejected = {Len(posted)}
        /\ pc # "posting"
        /\ \A j \in (i + 1)..Len(unsynced_logs) : ~logs[unsynced_logs[j]].synced

\* A cycle ended whose first batch was rejected while a later batch waited:
\* one POST was made.
C28_Witness ==
    /\ CycleEnded
    /\ Len(posted) = 1
    /\ Rejected = {1}
    /\ Len(unsynced_logs) > batch_size
    /\ outcome = "done"

\* The WARNING entries of the cycle in the activity log.
Warnings == {j \in 1..Len(activity) : activity[j].level = "WARNING"}

\* C29: every failed upload of the cycle (non-success status or transport
\* error) is recorded as one WARN entry in the activity log, the entry of a
\* rejected batch carrying its status.
C29_FailedUploadLogged ==
    /\ Cardinality(Warnings) = Cardinality(Rejected)
    /\ \A k \in Rejected :
          posted[k].status # TransportError =>
              \E j \in Warnings : activity[j].detail = posted[k].status

(***************************************************************************)
(* Properties of last_sync.                                                *)
(***************************************************************************)
C30_State == CycleEnded => (wrote <=> Flipped # {})

C30_Step ==
    /\ last_sync' # last_sync => (pc = "marking" /\ wrote')
    /\ (wrote' /\ ~wrote) => \E id \in 1..Len(logs) : ~logs[id].synced /\ logs'[id].synced

\* C30: a sync cycle writes last_sync if and only if it marked at least one
\* record synced; a cycle that synced nothing (nothing to sync, not
\* authenticated, first batch failed) leaves last_sync as it was.
C30_LastSyncIffSynced == [](C30_State) /\ [][C30_Step]_vars

\* An earlier cycle wrote last_sync; the cycle that just ended had its first
\* batch rejected, marked nothing and left last_sync alone.
C30_Witness ==
    /\ CycleEnded
    /\ outcome = "done"
    /\ Rejected = {1}
    /\ ~wrote
    /\ last_sync # 0
    /\ \E id \in 1..Len(logs) : logs[id].synced

(***************************************************************************)
(* Properties of a cycle that finds no registration in the config.         *)
(***************************************************************************)
\* C31: with no connection_key or no server_id in the config a sync cycle
\* skips without error: it POSTs nothing, changes no record's synced flag,
\* writes neither the config nor the activity log, and returns.
C31_UnregisteredCycleSkips ==
    ~cfgAuth =>
        /\ pc \in {"sleeping", "start"}
        /\ outcome \in {"none", "not_authenticated"}
        /\ posted = <<>>
        /\ \A id \in 1..Len(logs) : ~logs[id].synced
        /\ ~wrote
        /\ last_sync = 0
        /\ activity = <<>>

\* An unregistered agent finished a cycle with records waiting in the store.
C31_Witness ==
    /\ ~cfgAuth
    /\ CycleEnded
    /\ outcome = "not_authenticated"
    /\ Unsynced(logs) # {}

(***************************************************************************)
(* Properties of the periodic uploaders.                                   *)
(***************************************************************************)
\* C32: a failure inside a sync cycle never terminates the periodic uploader,
\* in the foreground loop or in the background worker: after a cycle that
\* raised, was rejected or lost the network, the task is still running.
C32_CycleFailureKeepsUploaderAlive == pc # "terminated"

(***************************************************************************)
(* Properties of the restart under sudo.                                   *)
(***************************************************************************)
\* C33: the re-execution under the privilege-escalation helper happens only
\* before any file tracking begins: no process that has opened a tracked file
\* re-executes itself.
C33_NoEscalationOnceTracking ==
    \A k \in 1..Len(reexecs) : reexecs[k] = {}

(***************************************************************************)
(* Properties of the shell-history watcher.                                *)
(***************************************************************************)
\* The commands appended since first sight: the newline-terminated lines
\* that are neither empty nor comments.
AppendedCommands ==
    LET lines == CompleteLines(SubSeq(history, firstSize + 1, Len(history)), <<>>)
    IN  SelectSeq(lines, LAMBDA l : l # <<>> /\ Head(l) # Hash)

\* C34: the watcher starts at the file's size on first sight; while the file
\* is only appended to, the commands passed on and persisted are the commands
\* appended since then, each once and in file order (a prefix of them at any
\* time, all of them after a poll that found nothing more); and a poll that
\* follows a cut of the file starts from offset 0.
C34_HistoryCommandsOnce ==
    /\ (history_offset # Unseen /\ ~cleared) =>
            /\ IsPrefix(commands, AppendedCommands)
            /\ (history_offset = Len(history) /\ hpos = 0) =>
                    commands = AppendedCommands
    /\ (poll.clearedBefore /\ history # <<>>) => poll.start = 0

(***************************************************************************)
(* Properties of what a call of analyze leaves alone.                      *)
(***************************************************************************)
\* The rules after the rule kind, in the order analyze tries them.
LaterKinds(kind) ==
    IF kind = "pattern" THEN {"brute", "scan", "flood", "error"}
    ELSE IF kind = "brute" THEN {"scan", "flood", "error"}
    ELSE IF kind = "scan" THEN {"flood", "error"}
    ELSE IF kind = "flood" THEN {"error"}
    ELSE {}

\* The rule a returned event came from; a threat type of the pattern table
\* stands for the pattern rule.
RuleOf(ev) == IF ev \in RateKinds THEN ev ELSE "pattern"

\* The step leaves the sliding window and the cooldown gates of kind alone.
RuleStateUnchanged(kind) ==
    /\ kind = "brute" =>
            brute' = brute /\ \A ip \in IPs :
                alerted'["_alerted_brute"][ip] = alerted["_alerted_brute"][ip]
    /\ kind = "scan" =>
            scan' = scan /\ alerted'["_alerted_scan"] = alerted["_alerted_scan"]
    /\ kind = "flood" =>
            flood' = flood /\ alerted'["_alerted_flood"] = alerted["_alerted_flood"]
    /\ kind = "error" =>
            errors' = errors /\ alerted'["_alerted_brute"]["_global_"]
                                    = alerted["_alerted_brute"]["_global_"]

C35_Step ==
    (fed' = fed + 1 /\ event' # "none") =>
        \A kind \in LaterKinds(RuleOf(event')) : RuleStateUnchanged(kind)

\* C35: a call of analyze that returns an event from one rule leaves the
\* state of every later rule as it was: a line that matches a malicious
\* pattern adds nothing to any window or cooldown map, and a line that emits
\* a Brute Force or Port Scan alert is not counted in the flood or the
\* error-spike window.
C35_ReturnLeavesLaterRulesAlone == [][C35_Step]_vars

\* A failed login that names its port, at level ERROR, gave a Brute Force
\* alert, and neither the scan, the flood nor the error window has an entry.
C35_Witness ==
    /\ fed > 0
    /\ event = "brute"
    /\ lastLine.dport # NoPort
    /\ lastLine.level = "ERROR"
    /\ \A ip \in IPs : scan[ip] = <<>>
    /\ \A source \in Sources : flood[source] = <<>>
    /\ errors = <<>>

(***************************************************************************)
(* Properties of the threads that share the detector.                      *)
(***************************************************************************)
\* C36: the detector state shared by the observer's thread and the
\* shell-history thread is never mutated concurrently: a call of
\* analyze_shell_command, also one that runs inside a call of analyze, leaves
\* every sliding window and cooldown map as it is, and every change of them
\* comes from the observer's thread.
C36_OnlyObserverMutates ==
    /\ mutators \subseteq {"observer"}
    /\ tpc["shell-history-watcher"] = "analyze_shell_command" =>
            \A source \in Sources :
                analyze_shell_command(DetectorState, arg["shell-history-watcher"],
                                      source, now).state = DetectorState

\* Both threads are inside the detector, after a call of each returned: the
\* observer's changed the state and the watcher's found a threat.
C36_Witness ==
    /\ tpc["observer"] = "analyze"
    /\ tpc["shell-history-watcher"] = "analyze_shell_command"
    /\ mutators = {"observer"}
    /\ calls["shell-history-watcher"] > 0
    /\ shell_threat # "none"

(***************************************************************************)
(* Properties of the cooldown gates.                                       *)
(***************************************************************************)
\* The (kind, key) pairs that have a gate.
GatePairs ==
    ({"brute", "scan"} \X IPs) \cup ({"flood"} \X Sources)
        \cup {<<"error", "_global_">>}

\* The reading the gate of a pair holds: the time of its last alert.
GateOf(al, pair) == al[StoreOf(pair[1])][pair[2]]

\* The pair whose alert the last call emitted, <<>> when it emitted none.
EmittedPair ==
    IF event \in {"brute", "scan"} THEN <<event, lastLine.source_ip>>
    ELSE IF event = "flood" THEN <<"flood", CHOOSE s \in Sources : TRUE>>
    ELSE IF event = "error" THEN <<"error", "_global_">>
    ELSE <<>>

C37_Step ==
    fed' = fed + 1 =>
        \A pair \in GatePairs :
            pair # EmittedPair' => GateOf(alerted', pair) = GateOf(alerted, pair)

\* C37: the cooldown gates of distinct (kind, key) pairs are independent: a
\* call that emits or suppresses the alert of one pair leaves the gate of
\* every other pair as it was, the global error-spike gate included, which
\* shares its map with the brute-force gates.
C37_GatesIndependent == [][C37_Step]_vars

\* An Error Spike alert was emitted while the brute-force gate of an IP, in
\* the same map, holds an earlier reading.
C37_Witness ==
    /\ fed > 0
    /\ event = "error"
    /\ GateOf(alerted, <<"error", "_global_">>) = now
    /\ \E ip \in IPs :
        /\ GateOf(alerted, <<"brute", ip>>) # 0
        /\ GateOf(alerted, <<"brute", ip>>) < now

(***************************************************************************)
(* Properties of records inserted while a cycle runs.                      *)
(***************************************************************************)
\* The records inserted since the last cycle ran its query.
InsertedSinceQuery == (Len(startLogs) + 1)..Len(logs)

C38_State ==
    \A id \in InsertedSinceQuery :
        /\ ~logs[id].synced
        /\ InCycle => id \notin SeqToSet(unsynced_logs)

C38_Step ==
    (pc = "start" /\ pc' = "posting") =>
        InsertedSinceQuery \subseteq SeqToSet(unsynced_logs')

\* C38: a record inserted while a sync cycle is in flight, after the cycle's
\* query, is not marked synced by that cycle and keeps synced = false, and the
\* query of the next cycle returns it.
C38_LateRecordWaitsForNextCycle == [](C38_State) /\ [][C38_Step]_vars

\* A cycle marked the records it had fetched and ended, and a record inserted
\* during it is still unsynced.
C38_Witness ==
    /\ CycleEnded
    /\ wrote
    /\ InsertedSinceQuery # {}
    /\ \E id \in 1..Len(startLogs) : logs[id].synced

(***************************************************************************)
(* Properties of two uploaders on one store.                               *)
(***************************************************************************)
\* C39: no record is POSTed to the aggregator with a success status more
\* than once, whatever the interleaving of the cycles of two uploaders and
\* however a cycle ends.
C39_AcceptedAtMostOnce == \A id \in DOMAIN received : received[id] <= 1

(***************************************************************************)
(* Properties of the classifiers.                                          *)
(***************************************************************************)
\* C40: classification is the same in every component: the category a
\* producer gives the lines of a log file is the category categorize_log and
\* the store's _classify_log assign to the file's path.
C40_OneClassification ==
    (lastCall # <<>> /\ lastCall.call.source \in LogPaths) =>
        LET p == lastCall.call.source
        IN  /\ CategoryOf(lastCall.call) = categorize_log(p)[1]
            /\ CategoryOf(lastCall.call) = classify_log(p)[1]

====
